---- MODULE Spec2Model ----
(***************************************************************************)
(* State-vector simulation kernel and stabilizer error-correction layer.   *)
(*                                                                         *)
(* Numbers.  The amplitudes the code computes with are numpy complex       *)
(* floats.  Every value that occurs for the inputs considered here is a    *)
(* real number of the form  s * sqrt(n/d)  (s a sign, n/d a fraction in    *)
(* lowest terms): 1, 1/sqrt(2), 1/sqrt(8), 1/4, ...  The model computes    *)
(* with these exactly, so that a square root, a normalisation or a         *)
(* fidelity is the value real arithmetic gives (floating-point rounding    *)
(* is not modelled).  Two special values: NaN (numpy's square root of a    *)
(* negative real) and Unrep (a sum of two incommensurable roots, which     *)
(* this representation cannot hold).                                       *)
(*                                                                         *)
(* Vectors.  A numpy array of length 2^n is the record [len, nz] where nz  *)
(* maps each index holding a nonzero amplitude to it; every other index    *)
(* in 0..len-1 holds 0.  Two arrays are equal iff their records are.       *)
(***************************************************************************)
EXTENDS Integers, Sequences, FiniteSets, TLC

VARIABLES
    pc, code_type, logical_state, error_rate, num_cycles, cycle,
    error_correctors, current_state, noisy_state, corrected_state,
    syndrome, errors, applied, decoded_state, cycles, final_fidelity,
    error_history, correction_statistics, raised,
    trail,
    sim_pc, sim_state, prev_state, applied_gate, circuit, counts, shots, sim_raised,
    gate_cache, lookup_log, job,
    sched, chain

ftvars == <<pc, code_type, logical_state, error_rate, num_cycles, cycle,
            error_correctors, current_state, noisy_state, corrected_state,
            syndrome, errors, applied, decoded_state, cycles, final_fidelity,
            error_history, correction_statistics, raised>>

\* the simulator's and the circuit service's variables
simvars == <<sim_pc, sim_state, prev_state, applied_gate, circuit, counts, shots,
             sim_raised, gate_cache, lookup_log, job>>

\* the workload scheduler and the type checker of the categorical interface
svcvars == <<sched, chain>>

\* the variables the fault-tolerance service does not own
nonft == <<trail, simvars, svcvars>>

vars == <<ftvars, nonft>>

-----------------------------------------------------------------------------
(* Exact arithmetic on values s * sqrt(n/d) *)

RECURSIVE Gcd(_, _)
Gcd(a, b) == IF b = 0 THEN a ELSE Gcd(b, a % b)

RECURSIVE SqrtSearch(_, _, _)
SqrtSearch(m, lo, hi) ==
    IF lo >= hi THEN lo
    ELSE LET mid == (lo + hi + 1) \div 2
         IN  IF mid * mid <= m THEN SqrtSearch(m, mid, hi)
                               ELSE SqrtSearch(m, lo, mid - 1)

ISqrt(m) == SqrtSearch(m, 0, IF m < 46340 THEN m ELSE 46340)

IsSquare(m) == LET r == ISqrt(m) IN r * r = m

Zero == [s |-> 0, n |-> 0, d |-> 1]

NaN == [s |-> 9, n |-> 0, d |-> 1]

Unrep == [s |-> 8, n |-> 0, d |-> 1]

IsNum(x) == x.s \in {-1, 0, 1}

Sgn(k) == IF k > 0 THEN 1 ELSE IF k < 0 THEN -1 ELSE 0

AbsInt(k) == IF k < 0 THEN -k ELSE k

\* s * sqrt(n/d) in lowest terms
Root(s, n, d) ==
    IF s = 0 \/ n = 0 THEN Zero
    ELSE LET g == Gcd(n, d) IN [s |-> s, n |-> n \div g, d |-> d \div g]

\* the rational p/q (q > 0)
Rat(p, q) == Root(Sgn(p), p * p, q * q)

One == Rat(1, 1)

Neg(x) == IF IsNum(x) THEN [x EXCEPT !.s = -x.s] ELSE x

Mul(x, y) ==
    IF ~IsNum(x) THEN x
    ELSE IF ~IsNum(y) THEN y
    ELSE IF x.s = 0 \/ y.s = 0 THEN Zero
    ELSE LET g1 == Gcd(x.n, y.d)
             g2 == Gcd(y.n, x.d)
         IN  Root(x.s * y.s, (x.n \div g1) * (y.n \div g2),
                             (x.d \div g2) * (y.d \div g1))

Div(x, y) ==
    IF ~IsNum(x) THEN x
    ELSE IF ~IsNum(y) THEN y
    ELSE IF y.s = 0 THEN NaN
    ELSE Mul(x, [s |-> y.s, n |-> y.d, d |-> y.n])

Add(x, y) ==
    IF ~IsNum(x) THEN x
    ELSE IF ~IsNum(y) THEN y
    ELSE IF x.s = 0 THEN y
    ELSE IF y.s = 0 THEN x
    ELSE LET g1 == Gcd(x.n, y.n)
             g2 == Gcd(x.d, y.d)
             p1 == x.n \div g1
             p2 == y.n \div g1
             q1 == x.d \div g2
             q2 == y.d \div g2
         IN  IF IsSquare(p1 * q2) /\ IsSquare(p2 * q1)
             THEN LET t == x.s * ISqrt(p1 * q2) + y.s * ISqrt(p2 * q1)
                  IN  Root(Sgn(t), g1 * t * t, g2 * q1 * q2)
             ELSE Unrep

\* np.sqrt of a real: nan below zero
Sqrt(x) ==
    IF ~IsNum(x) THEN x
    ELSE IF x.s = 0 THEN Zero
    ELSE IF x.s < 0 THEN NaN
    ELSE IF IsSquare(x.n) /\ IsSquare(x.d)
         THEN Root(1, ISqrt(x.n), ISqrt(x.d))
         ELSE Unrep

\* |x|^2
Abs2(x) == IF IsNum(x) THEN Root(x.s * x.s, x.n * x.n, x.d * x.d) ELSE x

\* comparisons with 0 (every comparison with nan is False)
Lt0(x) == x.s = -1

Gt0(x) == x.s = 1

RECURSIVE SumRange(_, _, _)
\* seq[lo] + ... + seq[hi]
SumRange(seq, lo, hi) ==
    IF lo > hi THEN Zero
    ELSE IF lo = hi THEN seq[lo]
    ELSE LET mid == (lo + hi) \div 2
         IN  Add(SumRange(seq, lo, mid), SumRange(seq, mid + 1, hi))

\* the sum of the first k numbers of a sequence
SumOver(seq, k) == SumRange(seq, 1, k)

-----------------------------------------------------------------------------
(* Arrays and bit addressing *)

Pow2(k) == 2 ^ k

\* int(np.log2(len)) for a length that is a power of two
Log2(len) == CHOOSE k \in 0..30 : Pow2(k) <= len /\ len < Pow2(k + 1)

\* (i >> k) & 1
Bit(i, k) == (i \div Pow2(k)) % 2

\* i ^ (1 << k)
FlipBit(i, k) == IF Bit(i, k) = 1 THEN i - Pow2(k) ELSE i + Pow2(k)

At(v, i) == IF i \in DOMAIN v.nz THEN v.nz[i] ELSE Zero

Support(v) == DOMAIN v.nz

\* the array of length len whose entry i is F(i) for i in S and 0 elsewhere
MkVec(len, S, F(_)) ==
    [len |-> len, nz |-> [i \in {j \in S : F(j) # Zero} |-> F(i)]]

\* the indices of a set in ascending order
SortedSeq(S) ==
    [k \in 1..Cardinality(S) |->
        CHOOSE x \in S : Cardinality({y \in S : y < x}) = k - 1]

-----------------------------------------------------------------------------
(* SteaneCodeCorrector *)

RECURSIVE BinFrom(_, _)
BinFrom(bits, k) == IF k = 0 THEN 0 ELSE 2 * BinFrom(bits, k - 1) + bits[k]

\* the value of a binary literal 0b...
Bin(bits) == BinFrom(bits, Len(bits))

Steane_num_physical_qubits == 7

x_stabilizers ==
    << <<1, 1, 1, 1, 0, 0, 0>>,
       <<1, 1, 0, 0, 1, 1, 0>>,
       <<1, 0, 1, 0, 1, 0, 1>> >>

z_stabilizers ==
    << <<1, 1, 1, 1, 0, 0, 0>>,
       <<1, 1, 0, 0, 1, 1, 0>>,
       <<1, 0, 1, 0, 1, 0, 1>> >>

\* d[k] = v on a dict held as a function
DictSet(d, k, v) == [x \in (DOMAIN d) \cup {k} |-> IF x = k THEN v ELSE d[x]]

EmptyDict == [x \in {} |-> 0]

\* tuple(sum(stab[j] for j in range(7) if j == i) % 2 for stab in stabilizers)
SyndromeKey(stabilizers, i) ==
    [k \in 1..Len(stabilizers) |-> stabilizers[k][i + 1] % 2]

RECURSIVE PutErrors(_, _, _, _)
\* the loop "for i in range(count): table[key(i)] = (kind, i)"
PutErrors(table, stabilizers, kind, count) ==
    IF count = 0 THEN table
    ELSE DictSet(PutErrors(table, stabilizers, kind, count - 1),
                 SyndromeKey(stabilizers, count - 1),
                 [error_type |-> kind, qubit |-> count - 1])

build_syndrome_table ==
    LET afterX == PutErrors(EmptyDict, x_stabilizers, "X", 7)
        afterZ == PutErrors(afterX, z_stabilizers, "Z", 7)
    IN  DictSet(afterZ, <<0, 0, 0>>, [error_type |-> "I", qubit |-> -1])

syndrome_table == build_syndrome_table

InvSqrt8 == Root(1, 1, 8)

Steane_zero_codewords ==
    << Bin(<<0,0,0,0,0,0,0>>), Bin(<<1,0,1,0,1,0,1>>), Bin(<<0,1,1,0,0,1,1>>),
       Bin(<<1,1,0,0,1,1,0>>), Bin(<<0,0,0,1,1,1,1>>), Bin(<<1,0,1,1,0,1,0>>),
       Bin(<<0,1,1,1,1,0,0>>), Bin(<<1,1,0,1,0,0,1>>) >>

Steane_one_codewords ==
    << Bin(<<1,1,1,1,1,1,1>>), Bin(<<0,1,0,1,0,1,0>>), Bin(<<1,0,0,1,1,0,0>>),
       Bin(<<0,0,1,1,0,0,1>>), Bin(<<1,1,1,0,0,0,0>>), Bin(<<0,1,0,0,1,0,1>>),
       Bin(<<1,0,0,0,0,1,1>>), Bin(<<0,0,1,0,1,1,0>>) >>

Range(seq) == {seq[k] : k \in 1..Len(seq)}

\* alpha * zero_logical + beta * one_logical
Steane_encode(logical) ==
    LET alpha == logical[1]
        beta == logical[2]
        zero_logical(i) == IF i \in Range(Steane_zero_codewords) THEN InvSqrt8 ELSE Zero
        one_logical(i) == IF i \in Range(Steane_one_codewords) THEN InvSqrt8 ELSE Zero
        entry(i) == Add(Mul(alpha, zero_logical(i)), Mul(beta, one_logical(i)))
    IN  MkVec(Pow2(7), Range(Steane_zero_codewords) \cup Range(Steane_one_codewords), entry)

\* proj[cw, cw] = 1.0/8 on the codewords of the logical bit
get_logical_projector(logical_bit) ==
    LET codewords == IF logical_bit = 0 THEN Steane_zero_codewords
                                        ELSE Steane_one_codewords
    IN  [cw \in Range(codewords) |-> Rat(1, 8)]

\* np.real(state.conj().T @ proj @ state) for a diagonal proj
DiagExpectation(proj, state) ==
    LET idx == SortedSeq(DOMAIN proj)
        terms == [k \in 1..Len(idx) |-> Mul(proj[idx[k]], Abs2(At(state, idx[k])))]
    IN  SumOver(terms, Len(terms))

\* Steane_decode whose fallback for a zero projection is |1> instead of |0>
Steane_decode_fallback_one(physical_state) ==
    LET zero_amplitude == Sqrt(DiagExpectation(get_logical_projector(0), physical_state))
        one_amplitude == Sqrt(DiagExpectation(get_logical_projector(1), physical_state))
        norm == Sqrt(Add(Mul(zero_amplitude, zero_amplitude),
                         Mul(one_amplitude, one_amplitude)))
    IN  IF Gt0(norm) THEN <<Div(zero_amplitude, norm), Div(one_amplitude, norm)>>
        ELSE <<Zero, One>>

Steane_decode(physical_state) ==
    LET zero_amplitude == Sqrt(DiagExpectation(get_logical_projector(0), physical_state))
        one_amplitude == Sqrt(DiagExpectation(get_logical_projector(1), physical_state))
        norm == Sqrt(Add(Mul(zero_amplitude, zero_amplitude),
                         Mul(one_amplitude, one_amplitude)))
    IN  IF Gt0(norm) THEN <<Div(zero_amplitude, norm), Div(one_amplitude, norm)>>
        ELSE <<One, Zero>>

SingleOp(pauli_type) ==
    IF pauli_type = "X" THEN << <<0, 1>>, <<1, 0>> >>
                        ELSE << <<1, 0>>, <<0, -1>> >>

Identity2 == << <<1, 0>>, <<0, 1>> >>

\* Each factor of the Kronecker product is X, Z or the identity, so each row of
\* a factor holds one nonzero entry: its column and its value for row bit a
FactorCol(factor, a) == CHOOSE c \in {0, 1} : factor[a + 1][c + 1] # 0

RECURSIVE KronRow(_, _, _, _)
\* row i of the Kronecker product of the first k factors (factor q, for qubit
\* q-1, addresses bit N-q of the index): the column of its nonzero entry, as the
\* bits it sets, and the entry's value
KronRow(operator_bits, pauli_type, i, k) ==
    IF k = 0 THEN [col |-> 0, val |-> 1]
    ELSE LET N == Len(operator_bits)
             factor == IF operator_bits[k] = 1 THEN SingleOp(pauli_type) ELSE Identity2
             a == Bit(i, N - k)
             c == FactorCol(factor, a)
             rest == KronRow(operator_bits, pauli_type, i, k - 1)
         IN  [col |-> rest.col + c * Pow2(N - k),
              val |-> rest.val * factor[a + 1][c + 1]]

\* np.real(state.conj().T @ operator @ state)
measure_pauli_operator(state, operator_bits, pauli_type) ==
    LET idx == SortedSeq(Support(state))
        terms == [a \in 1..Len(idx) |->
                     LET row == KronRow(operator_bits, pauli_type, idx[a],
                                        Len(operator_bits))
                     IN  Mul(Rat(row.val, 1),
                             Mul(At(state, idx[a]), At(state, row.col)))]
    IN  SumOver(terms, Len(terms))

\* Steane_measure_syndrome with "measurement <= 0" for "measurement < 0"
Steane_measure_syndrome_le(physical_state) ==
    LET x_syndrome == [k \in 1..3 |->
            IF ~Gt0(measure_pauli_operator(physical_state, x_stabilizers[k], "X"))
            THEN 1 ELSE 0]
        z_syndrome == [k \in 1..3 |->
            IF ~Gt0(measure_pauli_operator(physical_state, z_stabilizers[k], "Z"))
            THEN 1 ELSE 0]
    IN  [syndrome |-> x_syndrome \o z_syndrome,
         measured_qubits |-> [k \in 1..7 |-> k - 1]]

\* int(measurement < 0) for each stabilizer, X then Z
Steane_measure_syndrome(physical_state) ==
    LET x_syndrome == [k \in 1..3 |->
            IF Lt0(measure_pauli_operator(physical_state, x_stabilizers[k], "X"))
            THEN 1 ELSE 0]
        z_syndrome == [k \in 1..3 |->
            IF Lt0(measure_pauli_operator(physical_state, z_stabilizers[k], "Z"))
            THEN 1 ELSE 0]
    IN  [syndrome |-> x_syndrome \o z_syndrome,
         measured_qubits |-> [k \in 1..7 |-> k - 1]]

apply_pauli_correction(state, qubit, pauli_type) ==
    LET N == Log2(state.len)
    IN  IF pauli_type = "X"
        THEN MkVec(state.len, {FlipBit(i, N - 1 - qubit) : i \in Support(state)},
                   LAMBDA i : At(state, FlipBit(i, N - 1 - qubit)))
        ELSE MkVec(state.len, Support(state),
                   LAMBDA i : IF Bit(i, N - 1 - qubit) = 1 THEN Neg(At(state, i))
                                                          ELSE At(state, i))

\* the corrections correct_errors applies, in order: X lookup, then Z lookup
Steane_corrections(syn) ==
    LET x_syndrome == SubSeq(syn.syndrome, 1, 3)
        z_syndrome == SubSeq(syn.syndrome, 4, Len(syn.syndrome))
        xs == IF x_syndrome \in DOMAIN syndrome_table
                 /\ syndrome_table[x_syndrome].error_type = "X"
                 /\ syndrome_table[x_syndrome].qubit >= 0
              THEN << <<"X", syndrome_table[x_syndrome].qubit>> >> ELSE <<>>
        zs == IF z_syndrome \in DOMAIN syndrome_table
                 /\ syndrome_table[z_syndrome].error_type = "Z"
                 /\ syndrome_table[z_syndrome].qubit >= 0
              THEN << <<"Z", syndrome_table[z_syndrome].qubit>> >> ELSE <<>>
    IN  xs \o zs

RECURSIVE ApplyCorrections(_, _, _)
ApplyCorrections(state, corrections, k) ==
    IF k = 0 THEN state
    ELSE apply_pauli_correction(ApplyCorrections(state, corrections, k - 1),
                                corrections[k][2], corrections[k][1])

Steane_correct_errors(physical_state, syn) ==
    LET corrections == Steane_corrections(syn)
    IN  ApplyCorrections(physical_state, corrections, Len(corrections))


-----------------------------------------------------------------------------
(* Classes: which attributes each corrector class defines *)

\* QuantumErrorCorrector (the abstract base)
BaseAttributes == {"__init__", "encode", "decode", "measure_syndrome", "correct_errors"}

ClassAttributes ==
    [SteaneCodeCorrector |->
        {"__init__", "_build_syndrome_table", "encode", "decode",
         "_get_logical_projector", "measure_syndrome", "_measure_pauli_operator",
         "correct_errors", "_apply_pauli_correction"},
     ShorCodeCorrector |->
        {"__init__", "encode", "decode", "_get_shor_projector",
         "measure_syndrome", "correct_errors"},
     SurfaceCodeCorrector |->
        {"__init__", "_build_surface_lattice", "_generate_surface_stabilizers",
         "_node_to_qubit_index", "encode", "decode", "measure_syndrome",
         "correct_errors"}]

\* attribute lookup self.<name> on an instance of cls
HasAttr(cls, name) == name \in ClassAttributes[cls] \cup BaseAttributes

\* the outcome of a call: a value, or the exception it raised
Returned(v) == [raised |-> "none", value |-> v]

Raised(e) == [raised |-> e, value |-> <<>>]

\* "for stabilizer in stabilizers: self._measure_pauli_operator(state, stabilizer, 'Z')"
\* on a class that may not define _measure_pauli_operator
MeasureAllZ(cls, state, stabilizers, qubits) ==
    IF Len(stabilizers) > 0 /\ ~HasAttr(cls, "_measure_pauli_operator")
    THEN Raised("AttributeError")
    ELSE Returned([syndrome |-> [k \in 1..Len(stabilizers) |->
                        IF Lt0(measure_pauli_operator(state, stabilizers[k], "Z"))
                        THEN 1 ELSE 0],
                   measured_qubits |-> [k \in 1..qubits |-> k - 1]])

-----------------------------------------------------------------------------
(* ShorCodeCorrector *)

Shor_num_physical_qubits == 9

Shor_stabilizers ==
    << <<0, 0, 1, 1, 0, 0, 0, 0, 0>>,
       <<0, 1, 1, 0, 0, 0, 0, 0, 0>>,
       <<0, 0, 0, 0, 0, 1, 1, 0, 0>>,
       <<0, 0, 0, 0, 1, 1, 0, 0, 0>>,
       <<0, 0, 0, 0, 0, 0, 0, 0, 1>>,
       <<0, 0, 0, 0, 0, 0, 0, 1, 1>>,
       <<1, 1, 1, 1, 1, 1, 0, 0, 0>>,
       <<0, 0, 0, 1, 1, 1, 1, 1, 1>> >>

Shor_zero_terms ==
    << Bin(<<0,0,0,0,0,0,0,0,0>>), Bin(<<0,0,0,1,1,1,1,1,1>>),
       Bin(<<1,1,1,0,0,0,1,1,1>>), Bin(<<1,1,1,1,1,1,0,0,0>>) >>

Shor_one_terms ==
    << Bin(<<0,0,0,0,0,0,0,0,0>>), -Bin(<<0,0,0,1,1,1,1,1,1>>),
       -Bin(<<1,1,1,0,0,0,1,1,1>>), Bin(<<1,1,1,1,1,1,0,0,0>>) >>

\* the two loops "encoded_state[term] += ..." of encode, as the sum each index receives
Shor_encode(logical) ==
    LET alpha == logical[1]
        beta == logical[2]
        norm == InvSqrt8
        fromZero(i) == [k \in 1..Len(Shor_zero_terms) |->
                           IF Shor_zero_terms[k] = i THEN Mul(alpha, norm) ELSE Zero]
        fromOne(i) == [k \in 1..Len(Shor_one_terms) |->
                          IF k = 1
                          THEN (IF Shor_one_terms[k] = i THEN Mul(beta, norm) ELSE Zero)
                          ELSE IF AbsInt(Shor_one_terms[k]) = i
                               THEN Mul(Mul(beta, norm),
                                        Rat(IF Shor_one_terms[k] > 0 THEN 1 ELSE -1, 1))
                               ELSE Zero]
        entry(i) == LET all == fromZero(i) \o fromOne(i) IN SumOver(all, Len(all))
    IN  MkVec(Pow2(9),
              Range(Shor_zero_terms) \cup {AbsInt(t) : t \in Range(Shor_one_terms)},
              entry)

\* proj[state, state] = coeff (logical 0) or coeff * sign (logical 1)
get_shor_projector(logical_bit) ==
    LET states0 == << Bin(<<0,0,0,0,0,0,0,0,0>>), Bin(<<0,0,0,1,1,1,1,1,1>>),
                      Bin(<<1,1,1,0,0,0,1,1,1>>), Bin(<<1,1,1,1,1,1,0,0,0>>) >>
        signs == <<1, -1, -1, 1>>
    IN  IF logical_bit = 0
        THEN [st \in Range(states0) |-> Rat(1, 8)]
        ELSE [st \in Range(states0) |->
                 LET k == CHOOSE j \in 1..4 : states0[j] = st
                 IN  Mul(Rat(1, 8), Rat(signs[k], 1))]

Shor_decode(physical_state) ==
    LET zero_amp == Sqrt(DiagExpectation(get_shor_projector(0), physical_state))
        one_amp == Sqrt(DiagExpectation(get_shor_projector(1), physical_state))
        norm == Sqrt(Add(Mul(zero_amp, zero_amp), Mul(one_amp, one_amp)))
    IN  IF Gt0(norm) THEN <<Div(zero_amp, norm), Div(one_amp, norm)>>
        ELSE <<One, Zero>>

Shor_measure_syndrome(physical_state) ==
    MeasureAllZ("ShorCodeCorrector", physical_state, Shor_stabilizers, 9)

Shor_correct_errors(physical_state, syn) == physical_state

-----------------------------------------------------------------------------
(* SurfaceCodeCorrector, created with distance = 3 *)

Surface_distance == 3

Surface_num_physical_qubits == 2 * Surface_distance * Surface_distance - 1

\* _build_surface_lattice: the syndrome sites in the order the nodes are added
Surface_syndrome_nodes ==
    LET d == Surface_distance
        all == [k \in 1..(d * d) |-> <<(k - 1) \div d, (k - 1) % d>>]
    IN  SelectSeq(all, LAMBDA nd : (nd[1] + nd[2]) % 2 = 1)

\* the data neighbours an edge joins to syndrome site nd
Surface_neighbors(nd) ==
    LET d == Surface_distance
    IN  {<<nd[1] + dl[1], nd[2] + dl[2]>> :
            dl \in {x \in {<<-1, 0>>, <<1, 0>>, <<0, -1>>, <<0, 1>>} :
                      /\ 0 <= nd[1] + x[1] /\ nd[1] + x[1] < d
                      /\ 0 <= nd[2] + x[2] /\ nd[2] + x[2] < d
                      /\ (nd[1] + x[1] + nd[2] + x[2]) % 2 = 0}}

node_to_qubit_index(nd) == nd[1] * Surface_distance + nd[2]

generate_surface_stabilizers ==
    LET withNeighbors == SelectSeq(Surface_syndrome_nodes,
                                   LAMBDA nd : Cardinality(Surface_neighbors(nd)) > 0)
    IN  [k \in 1..Len(withNeighbors) |->
            [q \in 1..Surface_num_physical_qubits |->
                IF \E nb \in Surface_neighbors(withNeighbors[k]) :
                       node_to_qubit_index(nb) = q - 1
                THEN 1 ELSE 0]]

\* encoded_state[0] = logical_state[0]; encoded_state[-1] = logical_state[1]
Surface_encode(logical) ==
    LET len == Pow2(Surface_num_physical_qubits)
    IN  MkVec(len, {0, len - 1},
              LAMBDA i : IF i = len - 1 THEN logical[2] ELSE logical[1])

Surface_decode(physical_state) == <<One, Zero>>

Surface_measure_syndrome(physical_state) ==
    MeasureAllZ("SurfaceCodeCorrector", physical_state, generate_surface_stabilizers,
                Surface_num_physical_qubits)

Surface_correct_errors(physical_state, syn) == physical_state


-----------------------------------------------------------------------------
(* FaultTolerantQuantumService *)

CorrectionCode == {"STEANE_7", "SHOR_9", "SURFACE", "COLOR", "REPETITION", "STABILIZER"}

ErrorKinds == {"BIT_FLIP", "PHASE_FLIP", "BOTH"}

CorrectorClass(code) ==
    CASE code = "STEANE_7" -> "SteaneCodeCorrector"
      [] code = "SHOR_9" -> "ShorCodeCorrector"
      [] code = "SURFACE" -> "SurfaceCodeCorrector"

encode(code, logical) ==
    CASE code = "STEANE_7" -> Steane_encode(logical)
      [] code = "SHOR_9" -> Shor_encode(logical)
      [] code = "SURFACE" -> Surface_encode(logical)

decode(code, physical_state) ==
    CASE code = "STEANE_7" -> Steane_decode(physical_state)
      [] code = "SHOR_9" -> Shor_decode(physical_state)
      [] code = "SURFACE" -> Surface_decode(physical_state)

measure_syndrome(code, physical_state) ==
    CASE code = "STEANE_7" -> Returned(Steane_measure_syndrome(physical_state))
      [] code = "SHOR_9" -> Shor_measure_syndrome(physical_state)
      [] code = "SURFACE" -> Surface_measure_syndrome(physical_state)

correct_errors(code, physical_state, syn) ==
    CASE code = "STEANE_7" -> Steane_correct_errors(physical_state, syn)
      [] code = "SHOR_9" -> Shor_correct_errors(physical_state, syn)
      [] code = "SURFACE" -> Surface_correct_errors(physical_state, syn)

\* the Pauli corrections correct_errors applied, for the cycle's bookkeeping
corrections_applied(code, syn) ==
    IF code = "STEANE_7" THEN Steane_corrections(syn) ELSE <<>>

\* apply_bit_flip without the copy: the loop reads entries it has already written
apply_bit_flip_inplace(state, qubit) ==
    LET num_qubits == Log2(state.len)
        k == num_qubits - 1 - qubit
        src(i) == IF Bit(i, k) = 1 THEN i ELSE FlipBit(i, k)
    IN  MkVec(state.len, Support(state) \cup {FlipBit(i, k) : i \in Support(state)},
              LAMBDA i : At(state, src(i)))

apply_bit_flip(state, qubit) ==
    LET num_qubits == Log2(state.len)
    IN  MkVec(state.len, {FlipBit(i, num_qubits - 1 - qubit) : i \in Support(state)},
              LAMBDA i : At(state, FlipBit(i, num_qubits - 1 - qubit)))

apply_phase_flip(state, qubit) ==
    LET num_qubits == Log2(state.len)
    IN  MkVec(state.len, Support(state),
              LAMBDA i : IF Bit(i, num_qubits - 1 - qubit) = 1
                         THEN Neg(At(state, i)) ELSE At(state, i))

\* the branch of simulate_errors that applies one error to the state
apply_error(state, qubit, error_type) ==
    CASE error_type = "BIT_FLIP" -> apply_bit_flip(state, qubit)
      [] error_type = "PHASE_FLIP" -> apply_phase_flip(state, qubit)
      [] error_type = "BOTH" -> apply_phase_flip(apply_bit_flip(state, qubit), qubit)

RECURSIVE ApplyErrors(_, _, _)
\* the qubit loop of simulate_errors over the errors drawn, in qubit order
ApplyErrors(state, errs, k) ==
    IF k = 0 THEN state
    ELSE apply_error(ApplyErrors(state, errs, k - 1),
                     errs[k].qubit_id, errs[k].error_type)

\* np.abs(np.vdot(logical_state, decoded_state))**2
Fidelity(logical, decoded) ==
    Abs2(Add(Mul(logical[1], decoded[1]), Mul(logical[2], decoded[2])))

-----------------------------------------------------------------------------
(* Inputs and the random source *)

MaxCycles == 5

MaxNoisyCycles == 2

MaxInjected == 1

InvSqrt2 == Root(1, 1, 2)

\* normalised logical states: the basis states and their equal superpositions,
\* with amplitudes of either sign
LogicalStates ==
    { <<One, Zero>>, <<Zero, One>>, <<Neg(One), Zero>>, <<Zero, Neg(One)>>,
      <<InvSqrt2, InvSqrt2>>, <<InvSqrt2, Neg(InvSqrt2)>>,
      <<Neg(InvSqrt2), InvSqrt2>>, <<Neg(InvSqrt2), Neg(InvSqrt2)>> }

\* the logical states test_fault_tolerance runs through the cycle
test_states == { <<One, Zero>>, <<Zero, One>>, <<InvSqrt2, InvSqrt2>> }

\* error rates, in percent
ErrorRates == {0, 50}

\* values np.random.random() can return, in percent of [0, 1)
RandomDraws == {0, 99}

RECURSIVE AscendingQubits(_, _, _)
\* the ascending lists of at most k qubits out of lo..n-1
AscendingQubits(lo, n, k) ==
    IF k = 0 THEN {<<>>}
    ELSE {<<>>} \cup UNION {{<<q>> \o rest : rest \in AscendingQubits(q + 1, n, k - 1)} :
                              q \in lo..(n - 1)}

NoVec == [len |-> 0, nz |-> <<>>]

NoSyndrome == [syndrome |-> <<>>, measured_qubits |-> <<>>]

-----------------------------------------------------------------------------
(* full_error_correction_cycle, one step per call it makes *)

Matrix(name) ==
    CASE name = "x" -> << <<Zero, One>>, <<One, Zero>> >>
      [] name = "z" -> << <<One, Zero>>, <<Zero, Neg(One)>> >>
      [] name = "h" -> << <<InvSqrt2, InvSqrt2>>, <<InvSqrt2, Neg(InvSqrt2)>> >>
      [] name = "cnot" -> << <<One, Zero, Zero, Zero>>, <<Zero, One, Zero, Zero>>,
                             <<Zero, Zero, Zero, One>>, <<Zero, Zero, One, Zero>> >>
      [] name = "identity" -> << <<One, Zero, Zero, Zero>>, <<Zero, One, Zero, Zero>>,
                                 <<Zero, Zero, One, Zero>>, <<Zero, Zero, Zero, One>> >>
      [] name = "cz" -> << <<One, Zero, Zero, Zero>>, <<Zero, One, Zero, Zero>>,
                           <<Zero, Zero, One, Zero>>, <<Zero, Zero, Zero, Neg(One)>> >>
      [] name = "swap" -> << <<One, Zero, Zero, Zero>>, <<Zero, Zero, One, Zero>>,
                             <<Zero, One, Zero, Zero>>, <<Zero, Zero, Zero, One>> >>

None == <<>>

Eye2 == << <<One, Zero>>, <<Zero, One>> >>

\* a complex number off the real axis, told apart by its code; no arithmetic
\* is done on it
NonReal(k) == [s |-> 7, n |-> k, d |-> 1]

\* 1j
ImagUnit == NonReal(1)

\* -1j
MinusImagUnit == NonReal(2)

\* np.exp(1j * np.pi / 4)
ExpIPiOver4 == NonReal(3)

\* gate_cache after _initialize_standard_gates.  A key of the cache is the
\* pair <<gate_type.value, suffix>>: the suffix is "" for these entries and
\* the text after "<type>_" for the entries get_gate_matrix adds
standard_gates ==
    [key \in {<<g, "">> : g \in {"pauli_x", "pauli_y", "pauli_z", "hadamard",
                                 "cnot", "t_gate"}} |->
        CASE key[1] = "pauli_x" -> Matrix("x")
          [] key[1] = "pauli_y" -> << <<Zero, MinusImagUnit>>, <<ImagUnit, Zero>> >>
          [] key[1] = "pauli_z" -> Matrix("z")
          [] key[1] = "hadamard" -> Matrix("h")
          [] key[1] = "cnot" -> Matrix("cnot")
          [] key[1] = "t_gate" -> << <<One, Zero>>, <<Zero, ExpIPiOver4>> >>]

NoCircuit == [num_qubits |-> 0, gates |-> <<>>, state_vector |-> NoVec]

NoGate == [gate |-> "none", targets |-> <<>>, count |-> 0]

\* no entry in COMPLETED_JOBS and no background task.  For a submitted job:
\* type, circuit and training are the job_data the background task is handed,
\* task is that task ("pending" until process_quantum_job has run, then
\* "done"), and the rest is the dictionary COMPLETED_JOBS[job_id]: keys is
\* the set of its keys, a field that is not among them has the value it has
\* here (progress in percent; counts, state_vector and error are the values
\* under 'result' and 'error').
NoJob == [status |-> "none", type |-> "none", task |-> "none",
          circuit |-> NoCircuit, training |-> [model_id |-> "none", samples |-> 0],
          keys |-> {}, progress |-> -1, created_at |-> "None", completed_at |-> "None",
          counts |-> EmptyDict, state_vector |-> NoVec, error |-> "none"]

\* ResourceType and JobPriority (the priorities by their values)
ResourceTypes == {"QUANTUM_SIMULATOR", "CLASSICAL_CPU", "CLASSICAL_GPU",
                  "QUANTUM_HARDWARE", "MEMORY_INTENSIVE"}

JobPriority == 1..5

\* _create_default_resources: availability in percent, quantum_fidelity in
\* thousandths (0 for None), current_load 0
default_resources ==
    [id \in {"quantum-sim-1", "quantum-sim-2", "gpu-cluster-1", "cpu-cluster-1"} |->
        CASE id = "quantum-sim-1" ->
               [resource_type |-> "QUANTUM_SIMULATOR", capacity |-> 4, current_load |-> 0,
                availability |-> 100, cost_per_unit |-> 10, quantum_fidelity |-> 990]
          [] id = "quantum-sim-2" ->
               [resource_type |-> "QUANTUM_SIMULATOR", capacity |-> 8, current_load |-> 0,
                availability |-> 100, cost_per_unit |-> 15, quantum_fidelity |-> 995]
          [] id = "gpu-cluster-1" ->
               [resource_type |-> "CLASSICAL_GPU", capacity |-> 16, current_load |-> 0,
                availability |-> 100, cost_per_unit |-> 5, quantum_fidelity |-> 0]
          [] id = "cpu-cluster-1" ->
               [resource_type |-> "CLASSICAL_CPU", capacity |-> 32, current_load |-> 0,
                availability |-> 100, cost_per_unit |-> 1, quantum_fidelity |-> 0]]

\* a QuantumJob as its constructor leaves it (created_at: the order of
\* construction)
QuantumJob(priority, required_resources, created_at) ==
    [priority |-> priority, required_resources |-> required_resources,
     created_at |-> created_at, status |-> "PENDING", result |-> "None",
     assigned_resources |-> <<>>, started_at |-> "None"]

\* the job objects the clients hold: one simulator job, one job that needs a
\* simulator and a GPU, one that needs a CPU and quantum hardware
ClientJobs ==
    [id \in {"job-1", "job-2", "job-3"} |->
        CASE id = "job-1" -> QuantumJob(3, {"QUANTUM_SIMULATOR"}, 1)
          [] id = "job-2" -> QuantumJob(2, {"QUANTUM_SIMULATOR", "CLASSICAL_GPU"}, 2)
          [] id = "job-3" -> QuantumJob(3, {"CLASSICAL_CPU", "QUANTUM_HARDWARE"}, 3)]

\* HybridWorkloadScheduler.__init__ followed by initialize() without a
\* Kubernetes configuration.  jobs is the heap of job objects, the queues and
\* running_jobs and completed_jobs hold references (ids) to them; tasks are
\* the _execute_job tasks created and not yet finished.
NewScheduler ==
    [resources |-> default_resources,
     job_queues |-> [p \in JobPriority |-> <<>>],
     running_jobs |-> <<>>,
     completed_jobs |-> <<>>,
     jobs |-> ClientJobs,
     tasks |-> [id \in DOMAIN ClientJobs |-> 0],
     submitted |-> 0]

\* no call of TypeChecker.verify_chain yet
NoChain == [function_chain |-> <<>>, called |-> FALSE, ok |-> FALSE, message |-> "None"]

\* nothing created yet on the simulator side
SimIdle ==
    /\ sim_pc = "idle"
    /\ sim_state = NoVec
    /\ prev_state = NoVec
    /\ applied_gate = NoGate
    /\ circuit = NoCircuit
    /\ counts = EmptyDict
    /\ shots = 0
    /\ sim_raised = "none"
    /\ gate_cache = standard_gates
    /\ lookup_log = <<>>
    /\ job = NoJob
    /\ sched = NewScheduler
    /\ chain = NoChain

FTInit ==
    /\ SimIdle
    /\ pc = "idle"
    /\ code_type = "STEANE_7"
    /\ logical_state = <<One, Zero>>
    /\ error_rate = 0
    /\ num_cycles = 0
    /\ cycle = 0
    /\ error_correctors = {"STEANE_7", "SHOR_9"}
    /\ current_state = NoVec
    /\ noisy_state = NoVec
    /\ corrected_state = NoVec
    /\ syndrome = NoSyndrome
    /\ errors = <<>>
    /\ applied = <<>>
    /\ decoded_state = <<Zero, Zero>>
    /\ cycles = <<>>
    /\ final_fidelity = Zero
    /\ error_history = <<>>
    /\ correction_statistics = EmptyDict
    /\ raised = "none"
    /\ trail = <<>>

\* a caller invokes full_error_correction_cycle(logical, code, rate, n)
Call(logical, code, rate, n) ==
    /\ pc = "idle"
    /\ pc' = "encode"
    /\ logical_state' = logical
    /\ code_type' = code
    /\ error_rate' = rate
    /\ num_cycles' = n
    /\ cycle' = 0
    /\ cycles' = <<>>
    /\ UNCHANGED <<error_correctors, current_state, noisy_state, corrected_state,
                   syndrome, errors, applied, decoded_state, final_fidelity,
                   error_history, correction_statistics, raised>>
    /\ UNCHANGED nonft

\* encode_logical_qubit without the on-demand SurfaceCodeCorrector
Encode_no_surface ==
    /\ pc = "encode"
    /\ IF code_type \notin error_correctors
       THEN /\ raised' = "ValueError"
            /\ pc' = "raised"
            /\ UNCHANGED <<error_correctors, current_state>>
       ELSE /\ current_state' = encode(code_type, logical_state)
            /\ pc' = IF cycle < num_cycles THEN "inject" ELSE "final"
            /\ UNCHANGED <<error_correctors, raised>>
    /\ UNCHANGED <<code_type, logical_state, error_rate, num_cycles, cycle,
                   noisy_state, corrected_state, syndrome, errors, applied,
                   decoded_state, cycles, final_fidelity, error_history,
                   correction_statistics>>
    /\ UNCHANGED nonft

\* encode_logical_qubit
Encode ==
    /\ pc = "encode"
    /\ IF code_type \notin error_correctors /\ code_type # "SURFACE"
       THEN /\ raised' = "ValueError"
            /\ pc' = "raised"
            /\ UNCHANGED <<error_correctors, current_state>>
       ELSE /\ error_correctors' = error_correctors \cup {code_type}
            /\ current_state' = encode(code_type, logical_state)
            /\ pc' = IF cycle < num_cycles THEN "inject" ELSE "final"
            /\ UNCHANGED raised
    /\ UNCHANGED <<code_type, logical_state, error_rate, num_cycles, cycle,
                   noisy_state, corrected_state, syndrome, errors, applied,
                   decoded_state, cycles, final_fidelity, error_history,
                   correction_statistics>>
    /\ UNCHANGED nonft

\* simulate_errors with "self.error_history = errors" for the extend
SimulateErrorsUpTo_overwrite(limit) ==
    /\ pc = "inject"
    /\ LET num_qubits == Log2(current_state.len)
           room == limit - Len(error_history)
       IN  \E qs \in AscendingQubits(0, num_qubits, room) :
           \E kinds \in [1..Len(qs) -> ErrorKinds] :
              /\ Len(qs) > 0 => \E r \in RandomDraws : r < error_rate
              /\ Len(qs) < num_qubits => \E r \in RandomDraws : ~(r < error_rate)
              /\ LET errs == [k \in 1..Len(qs) |->
                                 [qubit_id |-> qs[k], error_type |-> kinds[k],
                                  probability |-> error_rate, corrected |-> FALSE]]
                 IN  /\ errors' = errs
                     /\ noisy_state' = ApplyErrors(current_state, errs, Len(errs))
                     /\ error_history' = errs
    /\ pc' = "measure"
    /\ UNCHANGED <<code_type, logical_state, error_rate, num_cycles, cycle,
                   error_correctors, current_state, corrected_state, syndrome,
                   applied, decoded_state, cycles, final_fidelity,
                   correction_statistics, raised>>
    /\ UNCHANGED nonft

\* simulate_errors: one draw per qubit, an error kind for each qubit hit; the
\* errors of a call number at most limit
SimulateErrorsUpTo(limit) ==
    /\ pc = "inject"
    /\ LET num_qubits == Log2(current_state.len)
           room == limit - Len(error_history)
       IN  \E qs \in AscendingQubits(0, num_qubits, room) :
           \E kinds \in [1..Len(qs) -> ErrorKinds] :
              /\ Len(qs) > 0 => \E r \in RandomDraws : r < error_rate
              /\ Len(qs) < num_qubits => \E r \in RandomDraws : ~(r < error_rate)
              /\ LET errs == [k \in 1..Len(qs) |->
                                 [qubit_id |-> qs[k], error_type |-> kinds[k],
                                  probability |-> error_rate, corrected |-> FALSE]]
                 IN  /\ errors' = errs
                     /\ noisy_state' = ApplyErrors(current_state, errs, Len(errs))
                     /\ error_history' = error_history \o errs
    /\ pc' = "measure"
    /\ UNCHANGED <<code_type, logical_state, error_rate, num_cycles, cycle,
                   error_correctors, current_state, corrected_state, syndrome,
                   applied, decoded_state, cycles, final_fidelity,
                   correction_statistics, raised>>
    /\ UNCHANGED nonft

SimulateErrors == SimulateErrorsUpTo(MaxInjected)

\* perform_error_correction, first half: corrector.measure_syndrome
MeasureSyndrome ==
    /\ pc = "measure"
    /\ \E r \in {measure_syndrome(code_type, noisy_state)} :
           IF r.raised # "none"
           THEN /\ raised' = r.raised
                /\ pc' = "raised"
                /\ UNCHANGED syndrome
           ELSE /\ syndrome' = r.value
                /\ pc' = "correct"
                /\ UNCHANGED raised
    /\ UNCHANGED <<code_type, logical_state, error_rate, num_cycles, cycle,
                   error_correctors, current_state, noisy_state, corrected_state,
                   errors, applied, decoded_state, cycles, final_fidelity,
                   error_history, correction_statistics>>
    /\ UNCHANGED nonft

\* perform_error_correction, second half: corrector.correct_errors and the statistics
CorrectErrors ==
    /\ pc = "correct"
    /\ corrected_state' = correct_errors(code_type, noisy_state, syndrome)
    /\ applied' = corrections_applied(code_type, syndrome)
    /\ correction_statistics' =
           DictSet(correction_statistics, code_type,
                   IF code_type \in DOMAIN correction_statistics
                   THEN correction_statistics[code_type] + 1 ELSE 1)
    /\ pc' = "decode"
    /\ UNCHANGED <<code_type, logical_state, error_rate, num_cycles, cycle,
                   error_correctors, current_state, noisy_state, syndrome, errors,
                   decoded_state, cycles, final_fidelity, error_history, raised>>
    /\ UNCHANGED nonft

\* DecodeCycle that does not carry the corrected state into the next cycle
DecodeCycle_no_carry ==
    /\ pc = "decode"
    /\ decoded_state' = decode(code_type, corrected_state)
    /\ cycles' = Append(cycles,
           [cycle |-> cycle,
            errors_detected |-> Len(errors),
            syndrome |-> syndrome.syndrome,
            logical_fidelity |-> Fidelity(logical_state, decoded_state')])
    /\ cycle' = cycle + 1
    /\ pc' = IF cycle + 1 < num_cycles THEN "inject" ELSE "final"
    /\ UNCHANGED <<code_type, logical_state, error_rate, num_cycles, current_state,
                   error_correctors, noisy_state, corrected_state, syndrome, errors,
                   applied, final_fidelity, error_history, correction_statistics,
                   raised>>
    /\ UNCHANGED nonft

\* decode, the cycle's record, and the carry into the next cycle
DecodeCycle ==
    /\ pc = "decode"
    /\ decoded_state' = decode(code_type, corrected_state)
    /\ cycles' = Append(cycles,
           [cycle |-> cycle,
            errors_detected |-> Len(errors),
            syndrome |-> syndrome.syndrome,
            logical_fidelity |-> Fidelity(logical_state, decoded_state')])
    /\ current_state' = corrected_state
    /\ cycle' = cycle + 1
    /\ pc' = IF cycle + 1 < num_cycles THEN "inject" ELSE "final"
    /\ UNCHANGED <<code_type, logical_state, error_rate, num_cycles,
                   error_correctors, noisy_state, corrected_state, syndrome, errors,
                   applied, final_fidelity, error_history, correction_statistics,
                   raised>>
    /\ UNCHANGED nonft

\* the final decode and final_fidelity
FinalDecode ==
    /\ pc = "final"
    /\ decoded_state' = decode(code_type, current_state)
    /\ final_fidelity' = Fidelity(logical_state, decoded_state')
    /\ pc' = "done"
    /\ UNCHANGED <<code_type, logical_state, error_rate, num_cycles, cycle,
                   error_correctors, current_state, noisy_state, corrected_state,
                   syndrome, errors, applied, cycles, error_history,
                   correction_statistics, raised>>
    /\ UNCHANGED nonft

\* the calls explored: the states of test_fault_tolerance, any code; up to
\* MaxCycles cycles without noise, up to MaxNoisyCycles with
FTCall ==
    \E logical \in test_states, code \in CorrectionCode, rate \in ErrorRates,
       n \in 0..MaxCycles :
        /\ rate > 0 => n <= MaxNoisyCycles
        /\ Call(logical, code, rate, n)

FTNext ==
    \/ FTCall
    \/ Encode
    \/ SimulateErrors
    \/ MeasureSyndrome
    \/ CorrectErrors
    \/ DecodeCycle
    \/ FinalDecode

Spec == FTInit /\ [][FTNext]_vars

-----------------------------------------------------------------------------
(* Noisy runs of the Steane code on |0>, with more errors per run         *)

MaxHistory == 2

HistSimulateErrors == SimulateErrorsUpTo(MaxHistory)

\* a run of MaxNoisyCycles cycles at error rate 1/2
HistCall == Call(<<One, Zero>>, "STEANE_7", 50, MaxNoisyCycles)

HistInit == FTInit

HistNext ==
    \/ HistCall
    \/ Encode
    \/ HistSimulateErrors
    \/ MeasureSyndrome
    \/ CorrectErrors
    \/ DecodeCycle
    \/ FinalDecode

HistorySpec == HistInit /\ [][HistNext]_vars


-----------------------------------------------------------------------------
(* The corrector objects used directly: encode, errors applied with the     *)
(* service's flip helpers, measure_syndrome, correct_errors, decode          *)

MaxErrors == 1

CodecCodes == {"STEANE_7", "SHOR_9", "SURFACE"}

CodecInit == FTInit

CodecEncode(logical, code) ==
    /\ pc = "idle"
    /\ logical_state' = logical
    /\ code_type' = code
    /\ current_state' = encode(code, logical)
    /\ noisy_state' = encode(code, logical)
    /\ pc' = "encoded"
    /\ UNCHANGED <<error_rate, num_cycles, cycle, error_correctors, corrected_state,
                   syndrome, errors, applied, decoded_state, cycles, final_fidelity,
                   error_history, correction_statistics, raised>>
    /\ UNCHANGED nonft

CodecEncodeAny ==
    \E logical \in LogicalStates, code \in CodecCodes : CodecEncode(logical, code)

\* _apply_bit_flip or _apply_phase_flip on one qubit of the encoded state
CodecError ==
    /\ pc = "encoded"
    /\ Len(errors) < MaxErrors
    /\ \E qubit \in 0..(Log2(noisy_state.len) - 1),
          kind \in {"BIT_FLIP", "PHASE_FLIP"} :
          /\ noisy_state' = apply_error(noisy_state, qubit, kind)
          /\ errors' = Append(errors, [qubit_id |-> qubit, error_type |-> kind])
    /\ UNCHANGED <<pc, code_type, logical_state, error_rate, num_cycles, cycle,
                   error_correctors, current_state, corrected_state, syndrome,
                   applied, decoded_state, cycles, final_fidelity, error_history,
                   correction_statistics, raised>>
    /\ UNCHANGED nonft

CodecMeasure ==
    /\ pc = "encoded"
    /\ \E r \in {measure_syndrome(code_type, noisy_state)} :
           IF r.raised # "none"
           THEN /\ raised' = r.raised
                /\ pc' = "raised"
                /\ UNCHANGED syndrome
           ELSE /\ syndrome' = r.value
                /\ pc' = "measured"
                /\ UNCHANGED raised
    /\ UNCHANGED <<code_type, logical_state, error_rate, num_cycles, cycle,
                   error_correctors, current_state, noisy_state, corrected_state,
                   errors, applied, decoded_state, cycles, final_fidelity,
                   error_history, correction_statistics>>
    /\ UNCHANGED nonft

CodecCorrect ==
    /\ pc = "measured"
    /\ corrected_state' = correct_errors(code_type, noisy_state, syndrome)
    /\ applied' = corrections_applied(code_type, syndrome)
    /\ pc' = "corrected"
    /\ UNCHANGED <<code_type, logical_state, error_rate, num_cycles, cycle,
                   error_correctors, current_state, noisy_state, syndrome, errors,
                   decoded_state, cycles, final_fidelity, error_history,
                   correction_statistics, raised>>
    /\ UNCHANGED nonft

\* decode of the state as it stands: corrected if a correction ran, else as is
CodecDecode ==
    /\ pc \in {"encoded", "corrected"}
    /\ decoded_state' = decode(code_type, IF pc = "corrected" THEN corrected_state
                                                              ELSE noisy_state)
    /\ pc' = IF pc = "corrected" THEN "decoded_corrected" ELSE "decoded"
    /\ UNCHANGED <<code_type, logical_state, error_rate, num_cycles, cycle,
                   error_correctors, current_state, noisy_state, corrected_state,
                   syndrome, errors, applied, cycles, final_fidelity, error_history,
                   correction_statistics, raised>>
    /\ UNCHANGED nonft

CodecNext ==
    \/ CodecEncodeAny
    \/ CodecError
    \/ CodecMeasure
    \/ CodecCorrect
    \/ CodecDecode

CodecSpec == CodecInit /\ [][CodecNext]_vars

-----------------------------------------------------------------------------
(* The Pauli helpers applied to plain vectors *)

MaxFlips == 2

MaxFlipQubits == 2

\* test vectors on n qubits: a ramp (all amplitudes distinct), a ramp with
\* alternating signs, and the basis vectors
TestVectors(n) ==
    LET len == Pow2(n)
    IN  { MkVec(len, 0..(len - 1), LAMBDA i : Rat(i + 1, 1)),
          MkVec(len, 0..(len - 1),
                LAMBDA i : Rat(IF i % 2 = 0 THEN i + 1 ELSE -(i + 1), 1)) }
        \cup { MkVec(len, {j}, LAMBDA i : One) : j \in 0..(len - 1) }

PauliInit ==
    /\ SimIdle
    /\ pc = "pauli"
    /\ \E n \in 1..MaxFlipQubits : current_state \in TestVectors(n)
    /\ errors = <<>>
    /\ trail = <<>>
    /\ code_type = "STEANE_7"
    /\ logical_state = <<One, Zero>>
    /\ error_rate = 0
    /\ num_cycles = 0
    /\ cycle = 0
    /\ error_correctors = {"STEANE_7", "SHOR_9"}
    /\ noisy_state = NoVec
    /\ corrected_state = NoVec
    /\ syndrome = NoSyndrome
    /\ applied = <<>>
    /\ decoded_state = <<Zero, Zero>>
    /\ cycles = <<>>
    /\ final_fidelity = Zero
    /\ error_history = <<>>
    /\ correction_statistics = EmptyDict
    /\ raised = "none"

\* one helper applied to the vector; trail keeps the vector it was applied to
Flip(op, qubit, result) ==
    /\ pc = "pauli"
    /\ Len(errors) < MaxFlips
    /\ qubit \in 0..(Log2(current_state.len) - 1)
    /\ current_state' = result
    /\ errors' = Append(errors, [op |-> op, qubit |-> qubit])
    /\ trail' = Append(trail, current_state)
    /\ UNCHANGED <<pc, code_type, logical_state, error_rate, num_cycles, cycle,
                   error_correctors, noisy_state, corrected_state, syndrome,
                   applied, decoded_state, cycles, final_fidelity, error_history,
                   correction_statistics, raised>>
    /\ UNCHANGED <<simvars, svcvars>>

BitFlip ==
    \E q \in 0..(MaxFlipQubits - 1) :
        Flip("_apply_bit_flip", q, apply_bit_flip(current_state, q))

PhaseFlip ==
    \E q \in 0..(MaxFlipQubits - 1) :
        Flip("_apply_phase_flip", q, apply_phase_flip(current_state, q))

PauliCorrectionX ==
    \E q \in 0..(MaxFlipQubits - 1) :
        Flip("_apply_pauli_correction_X", q, apply_pauli_correction(current_state, q, "X"))

PauliCorrectionZ ==
    \E q \in 0..(MaxFlipQubits - 1) :
        Flip("_apply_pauli_correction_Z", q, apply_pauli_correction(current_state, q, "Z"))

PauliNext ==
    \/ BitFlip
    \/ PhaseFlip
    \/ PauliCorrectionX
    \/ PauliCorrectionZ

PauliSpec == PauliInit /\ [][PauliNext]_vars

\* the error branch of simulate_errors applied to one qubit of the vector
InjectError ==
    \E q \in 0..(MaxFlipQubits - 1) :
    \E kind \in ErrorKinds :
        Flip(kind, q, apply_error(current_state, q, kind))

InjectInit == PauliInit

InjectNext == InjectError

InjectSpec == InjectInit /\ [][InjectNext]_vars


-----------------------------------------------------------------------------
(* QuantumSimulatorLite *)

MaxSimQubits == 2

MaxSimGates == 2

MaxShots == 2

max_qubits == 12

\* the number of binary digits of i, at least one
BitLength(i) == IF i = 0 THEN 1 ELSE Log2(i) + 1

\* format(i, f'0{width}b'): the binary digits, most significant first,
\* padded with zeros on the left to at least width characters
Format(i, width) ==
    LET n == IF width > BitLength(i) THEN width ELSE BitLength(i)
    IN  [k \in 1..n |-> Bit(i, n - k)]

create_state_vector(num_qubits) ==
    IF num_qubits > max_qubits THEN Raised("ValueError")
    ELSE Returned(MkVec(Pow2(num_qubits), {0}, LAMBDA i : One))

\* the sum of the squared magnitudes of the entries
NormSq(v) ==
    LET idx == SortedSeq(Support(v))
    IN  SumOver([k \in 1..Len(idx) |-> Abs2(At(v, idx[k]))], Len(idx))

apply_single_qubit_gate(st, gate, target, num_qubits) ==
    LET flipped(i) == FlipBit(i, num_qubits - 1 - target)
        entry(i) ==
            IF Format(i, num_qubits)[target + 1] = 0
            THEN Add(Mul(gate[1][1], At(st, i)), Mul(gate[1][2], At(st, flipped(i))))
            ELSE Add(Mul(gate[2][1], At(st, flipped(i))), Mul(gate[2][2], At(st, i)))
    IN  MkVec(st.len, Support(st) \cup {flipped(i) : i \in Support(st)}, entry)

\* apply_two_qubit_gate writing into the array it reads from
apply_two_qubit_gate_inplace(st, gate, targets, num_qubits) ==
    LET control == targets[1]
        target == targets[2]
        flipped(i) == FlipBit(i, num_qubits - 1 - target)
        entry(i) ==
            IF Format(i, num_qubits)[control + 1] = 1
            THEN IF flipped(i) < i /\ Format(flipped(i), num_qubits)[control + 1] = 1
                 THEN At(st, i)
                 ELSE At(st, flipped(i))
            ELSE At(st, i)
    IN  MkVec(st.len, Support(st) \cup {flipped(i) : i \in Support(st)}, entry)

\* the gate argument is not read: a controlled X on targets[1] whatever it is
apply_two_qubit_gate(st, gate, targets, num_qubits) ==
    LET control == targets[1]
        target == targets[2]
        flipped(i) == FlipBit(i, num_qubits - 1 - target)
        entry(i) ==
            IF Format(i, num_qubits)[control + 1] = 1
            THEN At(st, flipped(i))
            ELSE At(st, i)
    IN  MkVec(st.len, Support(st) \cup {flipped(i) : i \in Support(st)}, entry)

apply_gate(st, gate_matrix, target_qubits) ==
    LET num_qubits == Log2(st.len)
    IN  IF Len(target_qubits) = 1
        THEN Returned(apply_single_qubit_gate(st, gate_matrix, target_qubits[1], num_qubits))
        ELSE IF Len(target_qubits) = 2
        THEN Returned(apply_two_qubit_gate(st, gate_matrix, target_qubits, num_qubits))
        ELSE Raised("ValueError")

\* np.random.choice(len(p), size=shots, p=p) rejects p that does not sum to 1
ChoiceAccepts(probabilities) ==
    LET idx == SortedSeq(DOMAIN probabilities)
    IN  SumOver([k \in 1..Len(idx) |-> probabilities[idx[k]]], Len(idx)) = One

\* the counting loop storing 1 for a key instead of adding 1 to its count
CountOutcomes_assign(outcomes, num_qubits) ==
    LET key(k) == Format(outcomes[k], num_qubits)
    IN  [b \in {key(k) : k \in 1..Len(outcomes)} |-> 1]

\* the counting loop: one more for the key of each outcome
CountOutcomes(outcomes, num_qubits) ==
    LET key(k) == Format(outcomes[k], num_qubits)
    IN  [b \in {key(k) : k \in 1..Len(outcomes)} |->
            Cardinality({k \in 1..Len(outcomes) : key(k) = b})]

\* the nonzero entries of np.abs(state)**2
Probabilities(st) == [i \in Support(st) |-> Abs2(At(st, i))]

\* the 2x2 and 4x4 matrices handed to apply_gate
SingleQubitGates == {"x", "z", "h"}

TwoQubitGates == {"cnot", "identity", "cz", "swap"}

\* the target lists tried with a gate on n qubits: in range, one per qubit of
\* the gate, and one list of three for the unsupported length
TargetLists(name, n) ==
    IF name \in SingleQubitGates
    THEN { <<q>> : q \in 0..(n - 1) }
    ELSE { <<a, b>> : a \in 0..(n - 1), b \in 0..(n - 1) } \cup { <<0, 0, 0>> }

CreateStateVector ==
    /\ sim_pc = "idle"
    /\ \E num_qubits \in 1..MaxSimQubits :
          /\ sim_state' = create_state_vector(num_qubits).value
          /\ sim_pc' = "state"
    /\ UNCHANGED <<prev_state, applied_gate, circuit, counts, shots, sim_raised>>
    /\ UNCHANGED <<gate_cache, lookup_log, job>>
    /\ UNCHANGED <<ftvars, trail, svcvars>>

ApplyGate ==
    /\ sim_pc = "state"
    /\ applied_gate.count < MaxSimGates
    /\ \E name \in SingleQubitGates \cup TwoQubitGates :
       \E targets \in TargetLists(name, Log2(sim_state.len)) :
          LET r == apply_gate(sim_state, Matrix(name), targets)
          IN  /\ applied_gate' = [gate |-> name, targets |-> targets,
                                  count |-> applied_gate.count + 1]
              /\ prev_state' = sim_state
              /\ IF r.raised # "none"
                 THEN /\ sim_raised' = r.raised
                      /\ sim_pc' = "raised"
                      /\ UNCHANGED sim_state
                 ELSE /\ sim_state' = r.value
                      /\ UNCHANGED <<sim_pc, sim_raised>>
    /\ UNCHANGED <<circuit, counts, shots>>
    /\ UNCHANGED <<gate_cache, lookup_log, job>>
    /\ UNCHANGED <<ftvars, trail, svcvars>>

\* measure(state, shots): the outcomes are any indices of nonzero probability
Measure ==
    /\ sim_pc = "state"
    /\ \E accepted \in {ChoiceAccepts(Probabilities(sim_state))} :
       \E n \in 0..MaxShots :
          /\ shots' = n
          /\ IF accepted
             THEN /\ \E outcomes \in [1..n -> Support(sim_state)] :
                        counts' = CountOutcomes(outcomes, Log2(sim_state.len))
                  /\ sim_pc' = "measured"
                  /\ UNCHANGED sim_raised
             ELSE /\ sim_raised' = "ValueError"
                  /\ sim_pc' = "raised"
                  /\ UNCHANGED counts
    /\ UNCHANGED <<sim_state, prev_state, applied_gate, circuit>>
    /\ UNCHANGED <<gate_cache, lookup_log, job>>
    /\ UNCHANGED <<ftvars, trail, svcvars>>

-----------------------------------------------------------------------------
(* QuantumCircuit, QuantumLinearAlgebra and simulate_circuit *)

MaxCircuitGates == 2

\* the values of GateType
GateType ==
    {"pauli_x", "pauli_y", "pauli_z", "hadamard", "cnot", "phase", "t_gate",
     "qft", "grover_diffuser", "custom"}

\* the parameters offered to get_gate_matrix: None (or {}), and dictionaries
\* with one entry; theta is in units of pi
Parameters ==
    {EmptyDict, [theta |-> 0], [theta |-> 1], [n_qubits |-> 1], [n_qubits |-> 2]}

\* str(parameters)
Str(parameters) ==
    IF "theta" \in DOMAIN parameters
    THEN (IF parameters.theta = 0 THEN "{'theta': 0}" ELSE "{'theta': pi}")
    ELSE (IF parameters.n_qubits = 1 THEN "{'n_qubits': 1}" ELSE "{'n_qubits': 2}")

\* parameters.get(name, default) if parameters else default
ParamGet(parameters, name, default) ==
    IF name \in DOMAIN parameters THEN parameters[name] ELSE default

\* np.exp(1j * theta) for theta a multiple of pi
ExpI(theta) == IF theta % 2 = 0 THEN One ELSE Neg(One)

\* omega**e / np.sqrt(N) with omega = np.exp(2j * np.pi / N), N = 2 or 4
OmegaPow(N, e) ==
    IF N = 2 THEN (IF e % 2 = 0 THEN InvSqrt2 ELSE Neg(InvSqrt2))
    ELSE CASE e % 4 = 0 -> Rat(1, 2)
           [] e % 4 = 1 -> NonReal(4)
           [] e % 4 = 2 -> Rat(-1, 2)
           [] e % 4 = 3 -> NonReal(5)

qft_matrix(n) ==
    [i \in 1..Pow2(n) |-> [j \in 1..Pow2(n) |-> OmegaPow(Pow2(n), (i - 1) * (j - 1))]]

\* 2 * np.outer(s, s.conj()) - np.eye(N)
grover_diffuser_matrix(n) ==
    [i \in 1..Pow2(n) |->
        [j \in 1..Pow2(n) |->
            Add(Rat(2, Pow2(n)), IF i = j THEN Neg(One) ELSE Zero)]]

\* f"{gate_type.value}_{str(parameters) if parameters else 'none'}"
CacheKey(gate_type, parameters) ==
    <<gate_type, IF DOMAIN parameters # {} THEN Str(parameters) ELSE "none">>

\* the matrix get_gate_matrix computes when the key is not cached, None when
\* the type has none
ComputeMatrix(cache, gate_type, parameters) ==
    CASE gate_type = "phase" ->
           << <<One, Zero>>, <<Zero, ExpI(ParamGet(parameters, "theta", 0))>> >>
      [] gate_type = "qft" -> qft_matrix(ParamGet(parameters, "n_qubits", 2))
      [] gate_type = "grover_diffuser" ->
           grover_diffuser_matrix(ParamGet(parameters, "n_qubits", 2))
      [] OTHER -> IF <<gate_type, "">> \in DOMAIN cache
                  THEN cache[<<gate_type, "">>] ELSE None

\* get_gate_matrix with "if matrix is not None" left out before the store
get_gate_matrix_store_none(cache, gate_type, parameters) ==
    LET cache_key == CacheKey(gate_type, parameters)
        matrix == ComputeMatrix(cache, gate_type, parameters)
    IN  IF cache_key \in DOMAIN cache
        THEN [matrix |-> cache[cache_key], cache |-> cache]
        ELSE [matrix |-> matrix, cache |-> cache @@ (cache_key :> matrix)]

\* get_gate_matrix keeping one computed entry: the store drops the entries
\* stored before it
get_gate_matrix_evict(cache, gate_type, parameters) ==
    LET cache_key == CacheKey(gate_type, parameters)
        matrix == ComputeMatrix(cache, gate_type, parameters)
    IN  IF cache_key \in DOMAIN cache
        THEN [matrix |-> cache[cache_key], cache |-> cache]
        ELSE IF matrix # None
        THEN [matrix |-> matrix, cache |-> standard_gates @@ (cache_key :> matrix)]
        ELSE [matrix |-> None, cache |-> cache]

\* get_gate_matrix(gate_type, parameters) on a cache: the matrix returned
\* (None when there is none) and the cache afterwards
get_gate_matrix(cache, gate_type, parameters) ==
    LET cache_key == CacheKey(gate_type, parameters)
        matrix == ComputeMatrix(cache, gate_type, parameters)
    IN  IF cache_key \in DOMAIN cache
        THEN [matrix |-> cache[cache_key], cache |-> cache]
        ELSE IF matrix # None
        THEN [matrix |-> matrix, cache |-> cache @@ (cache_key :> matrix)]
        ELSE [matrix |-> None, cache |-> cache]

\* entry (i, j) of the Kronecker product of a list of square matrices;
\* np.eye(1) for the empty list
RECURSIVE KronEntry(_, _, _)
KronEntry(matrices, i, j) ==
    IF Len(matrices) = 0 THEN (IF i = 0 /\ j = 0 THEN One ELSE Zero)
    ELSE LET last == matrices[Len(matrices)]
             d == Len(last)
         IN  Mul(KronEntry(SubSeq(matrices, 1, Len(matrices) - 1), i \div d, j \div d),
                 last[(i % d) + 1][(j % d) + 1])

RECURSIVE KronDim(_)
KronDim(matrices) ==
    IF Len(matrices) = 0 THEN 1
    ELSE KronDim(SubSeq(matrices, 1, Len(matrices) - 1)) * Len(matrices[Len(matrices)])

\* a full matrix as its size and its entries
tensor_product_gates(matrices) ==
    [dim |-> KronDim(matrices),
     entry |-> [i \in 0..(KronDim(matrices) - 1) |->
                  [j \in 0..(KronDim(matrices) - 1) |-> KronEntry(matrices, i, j)]]]

single_qubit_full_matrix(gate, target, num_qubits) ==
    tensor_product_gates([k \in 1..num_qubits |->
                            IF k - 1 = target THEN gate ELSE Eye2])

Min2(a, b) == IF a < b THEN a ELSE b

Max2(a, b) == IF a < b THEN b ELSE a

\* i_target = sum(i_bits[targets[k]] * 2**k), bits taken as (i >> k) & 1
RECURSIVE TargetIndexFrom(_, _, _)
TargetIndexFrom(i, targets, k) ==
    IF k > Len(targets) THEN 0
    ELSE Bit(i, targets[k]) * Pow2(k - 1) + TargetIndexFrom(i, targets, k + 1)

TargetIndex(i, targets) == TargetIndexFrom(i, targets, 1)

multi_qubit_full_matrix(gate, targets, num_qubits) ==
    LET N == Pow2(num_qubits)
        in_targets(k) == \E t \in 1..Len(targets) : targets[t] = k
        others_match(i, j) ==
            \A k \in 0..(num_qubits - 1) : in_targets(k) \/ Bit(i, k) = Bit(j, k)
    IN  [dim |-> N,
         entry |-> [i \in 0..(N - 1) |-> [j \in 0..(N - 1) |->
                      IF others_match(i, j)
                      THEN gate[TargetIndex(i, targets) + 1][TargetIndex(j, targets) + 1]
                      ELSE IF i = j THEN One ELSE Zero]]]

\* adjacent targets: the gate takes the place of qubit min(targets), the
\* factor of qubit max(targets) is left out
two_qubit_full_matrix(gate, targets, num_qubits) ==
    IF AbsInt(targets[1] - targets[2]) = 1
    THEN LET lo == Min2(targets[1], targets[2])
             hi == Max2(targets[1], targets[2])
             kept == SelectSeq([k \in 1..num_qubits |-> k - 1], LAMBDA q : q # hi)
         IN  tensor_product_gates([k \in 1..Len(kept) |->
                                     IF kept[k] = lo THEN gate ELSE Eye2])
    ELSE multi_qubit_full_matrix(gate, targets, num_qubits)

build_full_gate_matrix(gate_matrix, target_qubits, num_qubits) ==
    IF Len(target_qubits) = 1
    THEN single_qubit_full_matrix(gate_matrix, target_qubits[1], num_qubits)
    ELSE IF Len(target_qubits) = 2
    THEN two_qubit_full_matrix(gate_matrix, target_qubits, num_qubits)
    ELSE multi_qubit_full_matrix(gate_matrix, target_qubits, num_qubits)

\* full_gate @ state_vector; the shapes must agree
MatVec(full, st) ==
    IF full.dim # st.len THEN Raised("ValueError")
    ELSE LET idx == SortedSeq(Support(st))
         IN  Returned(MkVec(st.len, 0..(st.len - 1),
                LAMBDA i : SumOver([k \in 1..Len(idx) |->
                                      Mul(full.entry[i][idx[k]], At(st, idx[k]))],
                                   Len(idx))))

\* apply_gate_to_circuit(circuit, gate): the new circuit.state_vector or the
\* exception raised, and the gate cache afterwards
apply_gate_to_circuit(c, cache, gate) ==
    LET g == get_gate_matrix(cache, gate.gate_type, gate.parameters)
    IN  IF g.matrix = None
        THEN [raised |-> "ValueError: Unknown gate type", value |-> <<>>,
              cache |-> g.cache]
        ELSE LET r == MatVec(build_full_gate_matrix(g.matrix, gate.qubits,
                                                    c.num_qubits),
                             c.state_vector)
             IN  [raised |-> r.raised, value |-> r.value, cache |-> g.cache]

\* "for gate in circuit.gates: apply_gate_to_circuit(circuit, gate)" from
\* gate number k on: the circuit and the cache as left by the loop, and what
\* it raised
RECURSIVE ApplyGates(_, _, _)
ApplyGates(c, cache, k) ==
    IF k > Len(c.gates) THEN [raised |-> "none", circuit |-> c, cache |-> cache]
    ELSE LET r == apply_gate_to_circuit(c, cache, c.gates[k])
         IN  IF r.raised # "none"
             THEN [raised |-> r.raised, circuit |-> c, cache |-> r.cache]
             ELSE ApplyGates([c EXCEPT !.state_vector = r.value], r.cache, k + 1)

\* the gates offered on n qubits: one target per qubit of the gate, indices
\* n and -1 being the ones out of range, a phase gate with a parameter, and
\* a type with no matrix
GatesFor(n) ==
    { [gate_type |-> g, qubits |-> <<q>>, parameters |-> EmptyDict] :
        g \in {"pauli_x", "pauli_z", "hadamard"}, q \in (-1)..n }
    \cup { [gate_type |-> "cnot", qubits |-> <<a, b>>, parameters |-> EmptyDict] :
             a \in 0..(n - 1), b \in 0..(n - 1) }
    \cup { [gate_type |-> "phase", qubits |-> <<0>>, parameters |-> [theta |-> 1]] }
    \cup { [gate_type |-> "custom", qubits |-> <<0>>, parameters |-> EmptyDict] }

MaxOf(seq) == CHOOSE m \in Range(seq) : \A x \in Range(seq) : x <= m

NewCircuit ==
    /\ sim_pc = "idle"
    /\ \E num_qubits \in 1..MaxSimQubits :
          circuit' = [num_qubits |-> num_qubits, gates |-> <<>>,
                      state_vector |-> MkVec(Pow2(num_qubits), {0}, LAMBDA i : One)]
    /\ sim_pc' = "circuit"
    /\ UNCHANGED <<sim_state, prev_state, applied_gate, counts, shots, sim_raised>>
    /\ UNCHANGED <<gate_cache, lookup_log, job>>
    /\ UNCHANGED <<ftvars, trail, svcvars>>

AddGate ==
    /\ sim_pc = "circuit"
    /\ Len(circuit.gates) < MaxCircuitGates
    /\ applied_gate.count = 0
    /\ \E gate \in GatesFor(circuit.num_qubits) :
          IF MaxOf(gate.qubits) >= circuit.num_qubits
          THEN /\ sim_raised' = "ValueError"
               /\ sim_pc' = "raised"
               /\ UNCHANGED circuit
          ELSE /\ circuit' = [circuit EXCEPT !.gates = Append(@, gate)]
               /\ UNCHANGED <<sim_pc, sim_raised>>
    /\ UNCHANGED <<sim_state, prev_state, applied_gate, counts, shots>>
    /\ UNCHANGED <<gate_cache, lookup_log, job>>
    /\ UNCHANGED <<ftvars, trail, svcvars>>

\* simulate_circuit(circuit, shots): the gates in order, then the sampling
SimulateCircuit ==
    /\ sim_pc = "circuit"
    /\ \E r \in {ApplyGates(circuit, gate_cache, 1)} :
       \E accepted \in {r.raised = "none"
                          /\ ChoiceAccepts(Probabilities(r.circuit.state_vector))} :
       \E n \in 0..MaxShots :
          /\ shots' = n
          /\ circuit' = r.circuit
          /\ gate_cache' = r.cache
          /\ IF r.raised # "none"
             THEN /\ sim_raised' = r.raised
                  /\ sim_pc' = "raised"
                  /\ UNCHANGED counts
             ELSE IF ~accepted
             THEN /\ sim_raised' = "ValueError"
                  /\ sim_pc' = "raised"
                  /\ UNCHANGED counts
             ELSE /\ \E outcomes \in [1..n -> Support(r.circuit.state_vector)] :
                        counts' = CountOutcomes(outcomes, r.circuit.num_qubits)
                  /\ sim_pc' = "simulated"
                  /\ UNCHANGED sim_raised
    /\ UNCHANGED <<sim_state, prev_state, applied_gate, lookup_log, job>>
    /\ UNCHANGED <<ftvars, trail, svcvars>>

\* apply_gate_to_circuit(circuit, gate) called on a circuit directly
ApplyGateToCircuit ==
    /\ sim_pc = "circuit"
    /\ Len(circuit.gates) = 0
    /\ applied_gate.count < MaxSimGates
    /\ \E gate \in GatesFor(circuit.num_qubits) :
       \E r \in {apply_gate_to_circuit(circuit, gate_cache, gate)} :
          /\ applied_gate' = [gate |-> gate.gate_type, targets |-> gate.qubits,
                              parameters |-> gate.parameters,
                              count |-> applied_gate.count + 1]
          /\ prev_state' = circuit.state_vector
          /\ gate_cache' = r.cache
          /\ IF r.raised # "none"
             THEN /\ sim_raised' = r.raised
                  /\ sim_pc' = "raised"
                  /\ UNCHANGED circuit
             ELSE /\ circuit' = [circuit EXCEPT !.state_vector = r.value]
                  /\ UNCHANGED <<sim_pc, sim_raised>>
    /\ UNCHANGED <<sim_state, counts, shots, lookup_log, job>>
    /\ UNCHANGED <<ftvars, trail, svcvars>>

SimInit == FTInit

SimNext ==
    \/ CreateStateVector
    \/ ApplyGate
    \/ Measure
    \/ NewCircuit
    \/ AddGate
    \/ SimulateCircuit
    \/ ApplyGateToCircuit

SimSpec == SimInit /\ [][SimNext]_vars

-----------------------------------------------------------------------------
(* Circuits wide enough for non-adjacent qubit pairs *)

MaxWideQubits == 4

\* QuantumCircuit(num_qubits) with at least three qubits
NewWideCircuit ==
    /\ sim_pc = "idle"
    /\ \E num_qubits \in 3..MaxWideQubits :
          circuit' = [num_qubits |-> num_qubits, gates |-> <<>>,
                      state_vector |-> MkVec(Pow2(num_qubits), {0}, LAMBDA i : One)]
    /\ sim_pc' = "circuit"
    /\ UNCHANGED <<sim_state, prev_state, applied_gate, counts, shots, sim_raised>>
    /\ UNCHANGED <<gate_cache, lookup_log, job>>
    /\ UNCHANGED <<ftvars, trail, svcvars>>

WideInit == FTInit

WideNext ==
    \/ NewWideCircuit
    \/ ApplyGateToCircuit

WideSpec == WideInit /\ [][WideNext]_vars

-----------------------------------------------------------------------------
(* The simulation job of the lite service: simulate_quantum_circuit submits *)
(* it, process_quantum_job runs it in the background                        *)

MaxJobGates == 2

\* the gate types a request may name; process_quantum_job has a branch for
\* 'h', 'x' and 'cnot'
JobGateTypes == {"h", "x", "cnot", "y", "z"}

\* the gate_info dictionaries offered on n qubits
JobGates(n) ==
    { [type |-> t, targets |-> <<q>>] : t \in {"h", "x", "y", "z"}, q \in 0..(n - 1) }
    \cup { [type |-> "cnot", targets |-> tg] : tg \in TargetLists("cnot", n) }

RECURSIVE GateLists(_, _)
\* the lists of at most k gates on n qubits
GateLists(n, k) ==
    IF k = 0 THEN {<<>>}
    ELSE LET shorter == GateLists(n, k - 1)
         IN  shorter \cup { Append(l, g) : l \in shorter, g \in JobGates(n) }

\* the "for gate_info in circuit_data['gates']" loop from gate number k on:
\* the state it ends with, or the exception that left it
RECURSIVE RunJobGates(_, _, _)
RunJobGates(st, gates, k) ==
    IF k > Len(gates) THEN Returned(st)
    ELSE LET gate_type == gates[k].type
             targets == gates[k].targets
         IN  IF gate_type = "h" \/ gate_type = "x" \/ gate_type = "cnot"
             THEN LET r == apply_gate(st, Matrix(gate_type), targets)
                  IN  IF r.raised # "none" THEN r
                      ELSE RunJobGates(r.value, gates, k + 1)
             ELSE RunJobGates(st, gates, k + 1)

\* VQC_MODELS: one model has been created
VQC_MODELS == {"model-1"}

\* the dictionary both endpoints store at submission
Processing(j) ==
    [j EXCEPT !.status = "processing", !.keys = {"status", "progress", "created_at"},
              !.progress = 0, !.created_at = "submitted", !.task = "pending"]

\* POST /api/v1/simulate with a request that passed the QuantumCircuitRequest
\* validation (num_qubits >= 1, shots >= 1).  The job id is the digest of the
\* request and the clock, a key COMPLETED_JOBS does not hold yet.
SubmitJob ==
    /\ job.status = "none"
    /\ \E num_qubits \in 1..MaxSimQubits :
       \E gates \in GateLists(num_qubits, MaxJobGates) :
       \E n \in 1..MaxShots :
          job' = [Processing(job) EXCEPT
                     !.type = "simulation",
                     !.circuit = [num_qubits |-> num_qubits,
                                  gates |-> gates, shots |-> n]]
    /\ UNCHANGED <<sim_pc, sim_state, prev_state, applied_gate, circuit, counts,
                   shots, sim_raised, gate_cache, lookup_log>>
    /\ UNCHANGED <<ftvars, trail, svcvars>>

\* POST /api/v1/vqc/train with a request that passed the TrainingRequest
\* validation (iterations >= 1); a model_id outside VQC_MODELS is answered
\* with 404 and stores nothing.  samples is len(training_data).
SubmitTraining ==
    /\ job.status = "none"
    /\ \E model_id \in {"model-1", "model-2"} :
       \E samples \in 0..1 :
          /\ model_id \in VQC_MODELS
          /\ job' = [Processing(job) EXCEPT
                        !.type = "vqc_training",
                        !.training = [model_id |-> model_id, samples |-> samples]]
    /\ UNCHANGED <<sim_pc, sim_state, prev_state, applied_gate, circuit, counts,
                   shots, sim_raised, gate_cache, lookup_log>>
    /\ UNCHANGED <<ftvars, trail, svcvars>>

\* the dictionary the 'simulation' branch stores
SimulationCompleted(j, result_counts, state) ==
    [j EXCEPT !.status = "completed", !.keys = {"status", "result", "completed_at"},
              !.progress = -1, !.created_at = "None",
              !.completed_at = "processed", !.task = "done",
              !.counts = result_counts, !.state_vector = state]

\* the dictionary the 'vqc_training' branch stores (the loss history and the
\* parameters under 'result' are not modelled)
TrainingCompleted(j) ==
    [j EXCEPT !.status = "completed",
              !.keys = {"status", "result", "completed_at", "progress"},
              !.progress = 100, !.created_at = "None",
              !.completed_at = "processed", !.task = "done"]

\* the try block of process_quantum_job: every way it can end, as the
\* exception that leaves it or the dictionary it stores.  Training with no
\* sample divides total_loss by len(X) = 0; training with samples ends as
\* the forward passes end, returning or raising, which is left open here.
TryBlock(j) ==
    IF j.type = "simulation"
    THEN LET c == create_state_vector(j.circuit.num_qubits)
             r == IF c.raised # "none" THEN c ELSE RunJobGates(c.value, j.circuit.gates, 1)
         IN IF r.raised # "none"
            THEN {[raised |-> r.raised, stored |-> j]}
            ELSE IF ~ChoiceAccepts(Probabilities(r.value))
            THEN {[raised |-> "ValueError", stored |-> j]}
            ELSE {[raised |-> "none",
                   stored |-> SimulationCompleted(
                                  j, CountOutcomes(outcomes, j.circuit.num_qubits), r.value)] :
                      outcomes \in [1..j.circuit.shots -> Support(r.value)]}
    ELSE IF j.training.model_id \notin VQC_MODELS
    THEN {[raised |-> "ValueError", stored |-> j]}
    ELSE IF j.training.samples = 0
    THEN {[raised |-> "ZeroDivisionError", stored |-> j]}
    ELSE {[raised |-> "none", stored |-> TrainingCompleted(j)],
          [raised |-> "Exception", stored |-> j]}

\* process_quantum_job without its except clause: an exception leaves the
\* dictionary as it was
process_quantum_job_no_except(j) ==
    {IF o.raised # "none" THEN [j EXCEPT !.task = "done"] ELSE o.stored : o \in TryBlock(j)}

\* process_quantum_job: what the try block stored, or the dictionary of the
\* except clause
process_quantum_job(j) ==
    {IF o.raised # "none"
     THEN [j EXCEPT !.status = "failed", !.keys = {"status", "error", "completed_at"},
                    !.progress = -1, !.created_at = "None",
                    !.completed_at = "processed", !.task = "done", !.error = o.raised]
     ELSE o.stored : o \in TryBlock(j)}

\* the background task runs process_quantum_job; it never awaits, so it runs
\* to its end in one step of the event loop
ProcessJob ==
    /\ job.task = "pending"
    /\ \E stored \in process_quantum_job(job) : job' = stored
    /\ UNCHANGED <<sim_pc, sim_state, prev_state, applied_gate, circuit, counts,
                   shots, sim_raised, gate_cache, lookup_log>>
    /\ UNCHANGED <<ftvars, trail, svcvars>>

\* the fields JobStatus declares without a default, job_id aside (the
\* handler passes it)
JobStatusRequired == {"status", "progress", "created_at"}

\* GET /api/v1/jobs/{job_id}: JobStatus(**job_info, job_id=job_id)
get_job_status(j) ==
    IF j.status = "none"
    THEN "404"
    ELSE IF JobStatusRequired \subseteq j.keys THEN "JobStatus" ELSE "ValidationError"

JobInit == FTInit

JobNext ==
    \/ SubmitJob
    \/ SubmitTraining
    \/ ProcessJob

JobSpec == JobInit /\ [][JobNext]_vars

-----------------------------------------------------------------------------
(* QuantumLinearAlgebra.get_gate_matrix called directly *)

MaxLookups == 2

\* get_gate_matrix(gate_type, parameters); lookup_log keeps the calls made
\* and what each returned
GetGateMatrix ==
    /\ Len(lookup_log) < MaxLookups
    /\ \E gate_type \in GateType :
       \E parameters \in Parameters :
       \E r \in {get_gate_matrix(gate_cache, gate_type, parameters)} :
          /\ gate_cache' = r.cache
          /\ lookup_log' = Append(lookup_log,
                                  [gate_type |-> gate_type,
                                   parameters |-> parameters,
                                   matrix |-> r.matrix])
    /\ UNCHANGED <<sim_pc, sim_state, prev_state, applied_gate, circuit, counts,
                   shots, sim_raised, job>>
    /\ UNCHANGED <<ftvars, trail, svcvars>>

CacheInit == FTInit

CacheNext == GetGateMatrix

CacheSpec == CacheInit /\ [][CacheNext]_vars

-----------------------------------------------------------------------------
(* Properties *)

\* decode was called on the freshly encoded state: no error, no measurement
DecodedAfterEncode(code) ==
    /\ pc = "decoded"
    /\ code_type = code
    /\ errors = <<>>

\* C1: for the Steane code and every logical state among |0>, |1>, |+>, |->
\* with either overall sign, decode(encode(state)) has fidelity 1 with state
C1_SteaneRoundTrip ==
    (DecodedAfterEncode("STEANE_7") /\ logical_state \in LogicalStates)
        => Fidelity(logical_state, decoded_state) = One

\* C2: for the Shor code and |0>, |1> and the equal superpositions,
\* decode(encode(state)) has fidelity 1 with state
C2_ShorRoundTrip ==
    (DecodedAfterEncode("SHOR_9") /\ logical_state \in LogicalStates)
        => Fidelity(logical_state, decoded_state) = One

C3_Case ==
    /\ pc # "idle"
    /\ logical_state = <<One, Zero>>
    /\ code_type = "STEANE_7"
    /\ error_rate = 0
    /\ num_cycles = 5

\* C3: the full cycle on [1, 0] with the Steane code, error rate 0 and five
\* cycles injects no error, measures an all-zero syndrome and applies no
\* correction in every cycle, does not raise, and ends with final_fidelity 1
\* and logical_fidelity 1 in each of the five cycle records
C3_CleanSteaneCycle ==
    C3_Case =>
        /\ pc # "raised"
        /\ errors = <<>>
        /\ error_history = <<>>
        /\ applied = <<>>
        /\ syndrome.syndrome \in {<<>>, <<0, 0, 0, 0, 0, 0>>}
        /\ \A k \in 1..Len(cycles) :
              /\ cycles[k].errors_detected = 0
              /\ cycles[k].syndrome = <<0, 0, 0, 0, 0, 0>>
              /\ cycles[k].logical_fidelity = One
        /\ pc = "done" => (Len(cycles) = 5 /\ final_fidelity = One)

C3_Witness ==
    /\ C3_Case
    /\ pc = "done"
    /\ Len(cycles) = 5
    /\ cycles[5].logical_fidelity = One

C4_Case ==
    /\ pc = "decoded_corrected"
    /\ code_type = "STEANE_7"
    /\ logical_state = <<One, Zero>>
    /\ errors = <<[qubit_id |-> 0, error_type |-> "BIT_FLIP"]>>

\* C4: a bit flip on qubit 0 of the Steane encoding of |0>, followed by
\* measure_syndrome, correct_errors and decode, gives a decoded state of
\* fidelity 1 with [1, 0]
C4_BitFlipQubit0 ==
    C4_Case => Fidelity(<<One, Zero>>, decoded_state) = One

C4_Witness ==
    /\ C4_Case
    /\ noisy_state # current_state
    /\ syndrome.syndrome # <<0, 0, 0, 0, 0, 0>>
    /\ decoded_state = <<One, Zero>>

SteaneErrorCases ==
    {[error_type |-> "I", qubit |-> -1]}
        \cup { [error_type |-> p, qubit |-> q] : p \in {"X", "Z"}, q \in 0..6 }

\* C5: the Steane syndrome table maps the 15 single-error cases (X or Z on
\* each of the seven qubits, and no error) to distinct keys
C5_SyndromeTableBijection ==
    "STEANE_7" \in error_correctors =>
      /\ \A e \in SteaneErrorCases :
            \E key \in DOMAIN syndrome_table : syndrome_table[key] = e
      /\ Cardinality(DOMAIN syndrome_table) = 15

\* C6: the full cycle completes for STEANE_7, SHOR_9 and SURFACE; it raises
\* only for a CorrectionCode variant the service does not support
C6_RaisesOnlyOnUnsupported ==
    pc = "raised" => code_type \notin {"STEANE_7", "SHOR_9", "SURFACE"}

\* C7: each of _apply_bit_flip, _apply_phase_flip and _apply_pauli_correction
\* with 'X' or 'Z', applied twice to the same qubit, gives back the vector
\* it started from
C7_DoublePauliIdentity ==
    \A k \in 2..Len(errors) :
        errors[k] = errors[k - 1]
            => (IF k = Len(errors) THEN current_state ELSE trail[k + 1]) = trail[k - 1]

C7_Witness ==
    /\ Len(errors) = 2
    /\ errors[1] = errors[2]
    /\ errors[1].op = "_apply_bit_flip"
    /\ trail[2] # trail[1]
    /\ current_state = trail[1]

\* apply_gate has just returned for a gate of the given set with every
\* target index in range
GateApplied(names) ==
    /\ sim_pc = "state"
    /\ applied_gate.gate \in names
    /\ Len(applied_gate.targets) \in {1, 2}
    /\ \A k \in 1..Len(applied_gate.targets) :
          applied_gate.targets[k] \in 0..(Log2(sim_state.len) - 1)

DistinctTargets ==
    \A j, k \in 1..Len(applied_gate.targets) :
        j # k => applied_gate.targets[j] # applied_gate.targets[k]

\* C8: apply_gate with Pauli-X, Pauli-Z or CNOT and pairwise distinct target
\* indices in [0, n) returns a vector whose sum of squared magnitudes equals
\* that of the vector it was given
C8_NormPreservedDistinct ==
    (GateApplied({"x", "z", "cnot"}) /\ DistinctTargets)
        => NormSq(sim_state) = NormSq(prev_state)

\* C8 as stated: the same for all target indices in [0, n), equal or not
C8_NormPreservedInRange ==
    GateApplied({"x", "z", "cnot"}) => NormSq(sim_state) = NormSq(prev_state)

C8_Witness ==
    /\ GateApplied({"cnot"})
    /\ DistinctTargets
    /\ sim_state # prev_state
    /\ NormSq(prev_state) = One
    /\ NormSq(sim_state) = One

RECURSIVE SumCounts(_, _)
SumCounts(hist, keys) ==
    IF keys = {} THEN 0
    ELSE LET b == CHOOSE x \in keys : TRUE
         IN  hist[b] + SumCounts(hist, keys \ {b})

HistogramOf(n) ==
    /\ SumCounts(counts, DOMAIN counts) = shots
    /\ \A b \in DOMAIN counts : Len(b) = n /\ counts[b] >= 1

\* C9: with shots >= 1, the histogram returned by measure and the counts of
\* simulate_circuit sum to shots, every key has exactly n characters for the
\* n qubits of the state, and every key has a count of at least 1
C9_HistogramSumsToShots ==
    /\ (sim_pc = "measured" /\ shots >= 1) => HistogramOf(Log2(sim_state.len))
    /\ (sim_pc = "simulated" /\ shots >= 1) => HistogramOf(circuit.num_qubits)

C9_Witness ==
    /\ sim_pc = "simulated"
    /\ shots = 2
    /\ circuit.num_qubits = 2
    /\ Cardinality(DOMAIN counts) = 2
    /\ <<0, 1>> \in DOMAIN counts

\* the action of a 4x4 matrix on qubits targets[1], targets[2] of a vector,
\* targets[1] being the more significant bit of the matrix index
ReferenceTwoQubit(st, matrix, targets) ==
    LET n == Log2(st.len)
        b1(i) == Bit(i, n - 1 - targets[1])
        b2(i) == Bit(i, n - 1 - targets[2])
        with(i, x, y) ==
            LET j == IF b1(i) = x THEN i ELSE FlipBit(i, n - 1 - targets[1])
            IN  IF Bit(j, n - 1 - targets[2]) = y THEN j
                ELSE FlipBit(j, n - 1 - targets[2])
        entry(i) ==
            SumOver([c \in 1..4 |->
                        Mul(matrix[2 * b1(i) + b2(i) + 1][c],
                            At(st, with(i, (c - 1) \div 2, (c - 1) % 2)))], 4)
    IN  MkVec(st.len, 0..(st.len - 1), entry)

\* C10: apply_gate with a 4x4 matrix among identity, CNOT, CZ and SWAP and
\* two adjacent in-range targets returns the vector obtained by the action
\* of that matrix on the two target qubits
C10_TwoQubitAppliesMatrix ==
    (/\ GateApplied(TwoQubitGates)
     /\ Len(applied_gate.targets) = 2
     /\ AbsInt(applied_gate.targets[1] - applied_gate.targets[2]) = 1)
        => sim_state = ReferenceTwoQubit(prev_state, Matrix(applied_gate.gate),
                                         applied_gate.targets)

\* the order of the steps of one run, as a relation between pc and pc'
C11_StepOrder ==
    /\ pc' = "encode" => pc = "idle"
    /\ pc = "encode" => pc' \in {"inject", "final", "raised"}
    /\ pc = "inject" => pc' = "measure"
    /\ pc = "measure" => pc' \in {"correct", "raised"}
    /\ pc = "correct" => pc' = "decode"
    /\ pc = "decode" => pc' \in {"inject", "final"}
    /\ pc' = "inject" => pc \in {"encode", "decode"}
    /\ pc = "final" => pc' = "done"

\* what each step works on and leaves behind
C11_Carry ==
    /\ pc = "encode" /\ pc' # "raised" => current_state' = encode(code_type, logical_state)
    /\ pc # "encode" /\ pc # "decode" => current_state' = current_state
    /\ pc = "decode" => current_state' = corrected_state
    /\ pc = "decode" => /\ Len(cycles') = Len(cycles) + 1
                        /\ SubSeq(cycles', 1, Len(cycles)) = cycles
    /\ pc \notin {"idle", "decode"} => cycles' = cycles

\* C11: in one run of full_error_correction_cycle encode happens once, before
\* the first cycle; each cycle goes inject, measure, correct, decode; the
\* state entering the next cycle is the corrected state of the cycle before;
\* and the result holds num_cycles records numbered 0..num_cycles-1 in order
C11_CycleOrdering ==
    /\ [][C11_StepOrder /\ C11_Carry]_vars
    /\ [](/\ \A k \in 1..Len(cycles) : cycles[k].cycle = k - 1
          /\ pc \in {"inject", "measure", "correct", "decode"} => Len(cycles) = cycle
          /\ pc = "inject" /\ cycle > 0 => current_state = corrected_state
          /\ pc = "done" => Len(cycles) = num_cycles)

C11_Witness ==
    /\ pc = "done"
    /\ num_cycles = 2
    /\ Len(cycles) = 2
    /\ cycles[1].errors_detected = 1
    /\ cycles[2].cycle = 1
    /\ current_state = corrected_state
    /\ current_state # encode(code_type, logical_state)

\* C12: after any sequence of add_gate calls every gate stored in
\* circuit.gates has all its target indices in [0, num_qubits); a gate with a
\* target outside that range, too large or negative, is never stored
C12_StoredGatesInRange ==
    \A k \in 1..Len(circuit.gates) :
        \A t \in 1..Len(circuit.gates[k].qubits) :
            circuit.gates[k].qubits[t] \in 0..(circuit.num_qubits - 1)

\* a step of apply_gate_to_circuit called directly
DirectApplication ==
    sim_pc = "circuit" /\ applied_gate'.count = applied_gate.count + 1

C13_DirectCase ==
    (DirectApplication
       /\ get_gate_matrix(gate_cache, applied_gate'.gate,
                          applied_gate'.parameters).matrix = None)
    => /\ sim_raised' = "ValueError: Unknown gate type"
       /\ sim_pc' = "raised"
       /\ circuit' = circuit
       /\ gate_cache' = gate_cache

C13_FirstGateCase ==
    (sim_pc = "circuit" /\ sim_raised' = "ValueError: Unknown gate type"
       /\ Len(circuit.gates) > 0 /\ circuit.gates[1].gate_type = "custom")
    => /\ circuit' = circuit
       /\ gate_cache' = gate_cache

\* C13: applying a gate whose kind resolves to no matrix (CUSTOM) fails with
\* the unknown-gate ValueError, and on that failure the circuit (its state
\* vector included) and the gate cache are what they were before the call
C13_UnknownGateRejected == [][C13_DirectCase /\ C13_FirstGateCase]_vars

\* a CUSTOM gate applied after a gate that changed the state vector and
\* added a cache entry
C13_Witness ==
    /\ sim_pc = "raised"
    /\ sim_raised = "ValueError: Unknown gate type"
    /\ applied_gate.gate = "custom"
    /\ applied_gate.count = 2
    /\ circuit.state_vector = prev_state
    /\ circuit.state_vector # MkVec(Pow2(circuit.num_qubits), {0}, LAMBDA i : One)
    /\ gate_cache # standard_gates

\* the code variants with no corrector and none created on demand
UnsupportedCodes == {"COLOR", "REPETITION", "STABILIZER"}

C14_EncodeStep ==
    /\ (pc = "encode" /\ code_type \in UnsupportedCodes)
       => /\ pc' = "raised"
          /\ raised' = "ValueError"
          /\ error_history' = error_history
          /\ correction_statistics' = correction_statistics
          /\ error_correctors' = error_correctors
          /\ cycles' = <<>>
    /\ (pc = "encode" /\ code_type = "SURFACE")
       => /\ pc' \in {"inject", "final"}
          /\ raised' = "none"
          /\ "SURFACE" \notin error_correctors
          /\ error_correctors' = error_correctors \cup {"SURFACE"}
          /\ current_state' = Surface_encode(logical_state)

\* C14: a call with COLOR, REPETITION or STABILIZER raises the unsupported-code
\* ValueError in encode_logical_qubit, before any cycle: no error injected, no
\* cycle recorded, error_history and correction_statistics as they were; a
\* call with SURFACE is not rejected there and adds a SURFACE corrector
C14_UnsupportedCodeRejected ==
    /\ [][C14_EncodeStep]_vars
    /\ [](code_type \in UnsupportedCodes /\ pc # "idle"
            => /\ pc \in {"encode", "raised"}
               /\ cycles = <<>>
               /\ noisy_state = NoVec
               /\ error_history = <<>>
               /\ correction_statistics = EmptyDict)

\* a two-cycle noisy call with COLOR has raised
C14_Witness ==
    /\ pc = "raised"
    /\ raised = "ValueError"
    /\ code_type = "COLOR"
    /\ num_cycles = 2
    /\ error_rate > 0
    /\ cycles = <<>>
    /\ error_history = <<>>

\* the gate types process_quantum_job has a branch for
ImplementedJobGates == {"h", "x", "cnot"}

\* C15: a simulation job whose gate list names a gate type other than 'h',
\* 'x' and 'cnot' never ends with status 'completed'
C15_UnimplementedGateFails ==
    job.status = "completed"
    => \A k \in 1..Len(job.circuit.gates) :
           job.circuit.gates[k].type \in ImplementedJobGates

\* C16: measure and simulate_circuit return a histogram only for a shot
\* count of at least 1 (a call with shots = 0 raises instead)
C16_ZeroShotsRejected ==
    sim_pc \in {"measured", "simulated"} => shots >= 1

\* strictly ascending qubit ids: one entry per qubit at most
AscendingIds(errs) ==
    \A k \in 1..(Len(errs) - 1) : errs[k].qubit_id < errs[k + 1].qubit_id

C17_HistoryStep ==
    /\ Len(error_history') >= Len(error_history)
    /\ SubSeq(error_history', 1, Len(error_history)) = error_history
    /\ pc = "inject"
       => /\ error_history' = error_history \o errors'
          /\ AscendingIds(errors')
          /\ \A k \in 1..Len(errors') :
                errors'[k].qubit_id \in 0..(Log2(current_state.len) - 1)
          /\ noisy_state' = ApplyErrors(current_state, errors', Len(errors'))
    /\ pc # "inject" => error_history' = error_history

\* C17: error_history only grows at its end: a simulate_errors call appends
\* the list it returns (the errors it applied, one per qubit hit, in
\* ascending qubit order), and no other step of the service changes it
C17_HistoryAppendOnly == [][C17_HistoryStep]_vars

\* the second simulate_errors of a run has appended its error after the one
\* of the first, which is on a higher qubit
C17_Witness ==
    /\ pc = "measure"
    /\ cycle = 1
    /\ Len(error_history) = 2
    /\ Len(errors) = 1
    /\ error_history[2] = errors[1]
    /\ error_history[1].qubit_id > error_history[2].qubit_id

\* the qubits correct_errors applied a Pauli correction to in this cycle
CorrectedQubits == { applied[k][2] : k \in 1..Len(applied) }

\* C18: after the correction step of a cycle, every error injected in that
\* cycle on a qubit that correct_errors corrected has corrected = True in
\* error_history
C18_CorrectedFlagSet ==
    pc = "decode"
    => \A k \in 1..Len(errors) :
           errors[k].qubit_id \in CorrectedQubits
           => error_history[Len(error_history) - Len(errors) + k].corrected

\* every entry of the cache is still there, with the same matrix
C19_EntriesKept ==
    \A key \in DOMAIN gate_cache :
        key \in DOMAIN gate_cache' /\ gate_cache'[key] = gate_cache[key]

\* a call that returned None stored nothing
C19_NoneNotStored ==
    (Len(lookup_log') = Len(lookup_log) + 1
       /\ lookup_log'[Len(lookup_log')].matrix = None)
    => gate_cache' = gate_cache

\* C19: no get_gate_matrix call removes or replaces an entry of gate_cache,
\* a call that resolves to no matrix adds none, and two calls with the same
\* (kind, parameters) return the same matrix
C19_CacheMonotonic ==
    /\ [][C19_EntriesKept /\ C19_NoneNotStored]_vars
    /\ [](\A i \in 1..Len(lookup_log) :
            \A j \in i..Len(lookup_log) :
               (lookup_log[i].gate_type = lookup_log[j].gate_type
                  /\ lookup_log[i].parameters = lookup_log[j].parameters)
               => lookup_log[i].matrix = lookup_log[j].matrix)
    /\ [](\A key \in DOMAIN gate_cache : gate_cache[key] # None)

\* the phase gate with theta = pi looked up twice: the first call stored it,
\* the second returned the stored matrix
C19_Witness ==
    /\ Len(lookup_log) = 2
    /\ lookup_log[1].gate_type = "phase"
    /\ lookup_log[1].parameters = [theta |-> 1]
    /\ lookup_log[2].gate_type = "phase"
    /\ lookup_log[2].parameters = [theta |-> 1]
    /\ <<"phase", "{'theta': pi}">> \in DOMAIN gate_cache
    /\ lookup_log[2].matrix = << <<One, Zero>>, <<Zero, Neg(One)>> >>

\* the three blocks of the nine qubits
ShorBlocks == {{0, 1, 2}, {3, 4, 5}, {6, 7, 8}}

\* the qubits a stabilizer row has a 1 at
SetBits(stab) == {q \in 0..(Len(stab) - 1) : stab[q + 1] = 1}

\* the rows that are a two-qubit check inside block b
IntraBlockChecks(b) ==
    {k \in 1..Len(Shor_stabilizers) :
        /\ Cardinality(SetBits(Shor_stabilizers[k])) = 2
        /\ SetBits(Shor_stabilizers[k]) \subseteq b}

\* the rows that cover two adjacent blocks and nothing else
InterBlockChecks ==
    {k \in 1..Len(Shor_stabilizers) :
        SetBits(Shor_stabilizers[k]) \in {{0, 1, 2, 3, 4, 5}, {3, 4, 5, 6, 7, 8}}}

\* C20: the Shor corrector has 8 stabilizer rows over 9 qubits: two
\* two-qubit checks inside each of the blocks {0,1,2}, {3,4,5}, {6,7,8}, and
\* two six-qubit checks, each covering two adjacent blocks
C20_ShorStabilizerStructure ==
    "SHOR_9" \in error_correctors
    => /\ Len(Shor_stabilizers) = 8
       /\ \A k \in 1..Len(Shor_stabilizers) :
             Len(Shor_stabilizers[k]) = Shor_num_physical_qubits
       /\ \A b \in ShorBlocks : Cardinality(IntraBlockChecks(b)) = 2
       /\ Cardinality(InterBlockChecks) = 2

\* the Pauli that undoes an error kind
PauliOf(kind) == IF kind = "BIT_FLIP" THEN "X" ELSE "Z"

\* C21: one bit flip or phase flip on any qubit of the Steane encoding of a
\* logical basis state, then measure_syndrome and correct_errors, gives back
\* the encoded state, the correction being the same Pauli on the same qubit
C21_SteaneCorrectsSingleErrors ==
    (/\ pc = "corrected"
     /\ code_type = "STEANE_7"
     /\ logical_state \in {<<One, Zero>>, <<Zero, One>>}
     /\ Len(errors) = 1)
    => /\ corrected_state = current_state
       /\ applied = << <<PauliOf(errors[1].error_type), errors[1].qubit_id>> >>

\* C22: the error kind BOTH (bit flip, then phase flip) applied twice to the
\* same qubit gives back the vector it started from, signs included
C22_DoubleBothIdentity ==
    \A k \in 2..Len(errors) :
        (errors[k] = errors[k - 1] /\ errors[k].op = "BOTH")
        => (IF k = Len(errors) THEN current_state ELSE trail[k + 1]) = trail[k - 1]

RECURSIVE SumOverSet(_, _)
\* the index with bit n - 1 - q set for each q of qs
SumOverSet(qs, n) ==
    IF qs = {} THEN 0
    ELSE LET q == CHOOSE x \in qs : TRUE
         IN  Pow2(n - 1 - q) + SumOverSet(qs \ {q}, n)

\* the basis state of n qubits in which exactly the qubits of qs are 1, qubit
\* 0 being the most significant bit of the index
BigEndianBasis(n, qs) ==
    MkVec(Pow2(n), {SumOverSet(qs, n)}, LAMBDA i : One)

\* C23: on 3 or 4 qubits, Pauli-X on qubit a followed by CNOT with targets
\* [a, b], a and b in range and not adjacent, takes |0...0> to the basis
\* state with exactly qubits a and b set, big-endian
C23_BigEndianOnEveryPath ==
    (/\ sim_pc = "circuit"
     /\ applied_gate.count = 2
     /\ applied_gate.gate = "cnot"
     /\ applied_gate.targets[1] - applied_gate.targets[2] \notin {-1, 0, 1}
     /\ prev_state = BigEndianBasis(circuit.num_qubits, {applied_gate.targets[1]}))
    => circuit.state_vector =
          BigEndianBasis(circuit.num_qubits,
                         {applied_gate.targets[1], applied_gate.targets[2]})

\* C24: apply_gate_to_circuit of CNOT on adjacent targets [c, t] flips qubit
\* t in the part of the state where qubit c is 1, whichever of c and t is
\* the smaller, as QuantumSimulatorLite.apply_gate does on the same targets
C24_TargetOrderRespected ==
    (/\ sim_pc = "circuit"
     /\ applied_gate.count > 0
     /\ applied_gate.gate = "cnot"
     /\ AbsInt(applied_gate.targets[1] - applied_gate.targets[2]) = 1)
    => /\ circuit.state_vector =
             ReferenceTwoQubit(prev_state, Matrix("cnot"), applied_gate.targets)
       /\ circuit.state_vector =
             apply_gate(prev_state, Matrix("cnot"), applied_gate.targets).value


(***************************************************************************)
(* The hybrid workload scheduler (workload_scheduler.py).  One scheduler  *)
(* with the default resources; clients submit the job objects of          *)
(* ClientJobs, the scheduling loop runs _scheduling_cycle, and every       *)
(* assignment creates an _execute_job task that runs concurrently with     *)
(* the loop on the same event loop.                                        *)
(***************************************************************************)
MaxSubmissions == 3

\* the keys of self.resources in insertion order (the order dict iteration
\* follows)
ResourceOrder == <<"quantum-sim-1", "quantum-sim-2", "gpu-cluster-1", "cpu-cluster-1">>

\* the values resource.availability takes here, in percent: the random walk
\* of _update_resource_status is cut down to "fully available" and "gone",
\* with at most one resource gone at a time
Availabilities ==
    {[id \in DOMAIN default_resources |-> IF id = gone THEN 0 ELSE 100] :
        gone \in DOMAIN default_resources \cup {"none"}}

\* Resource.available_capacity: max(0, int(capacity * availability) - current_load)
available_capacity(resource) ==
    Max2(0, (resource.capacity * resource.availability) \div 100 - resource.current_load)

\* _calculate_allocation_score, in units of 1/1320000 (the common
\* denominator of every term for the resources above); the job's
\* quantum_fidelity_threshold is the default 0.95
calculate_allocation_score(resource) ==
    LET unit == 1320000
        cap == resource.capacity
        load == resource.current_load
        availability_term == 3 * (unit \div 1000) * resource.availability
        utilization_term ==
            IF 10 * load < 7 * cap
            THEN (unit * (2 * cap - AbsInt(cap - 2 * load))) \div (10 * cap)
            ELSE (unit * (cap - load)) \div (5 * cap)
        cost_term == unit \div (5 * (1 + resource.cost_per_unit))
        fidelity_term ==
            IF /\ resource.quantum_fidelity # 0
               /\ resource.resource_type \in {"QUANTUM_SIMULATOR", "QUANTUM_HARDWARE"}
            THEN IF resource.quantum_fidelity >= 950
                 THEN 3 * (unit \div 10000) * resource.quantum_fidelity
                 ELSE 0
            ELSE (3 * unit) \div 10
    IN availability_term + utilization_term + cost_term + fidelity_term

\* the first position (in dict order) among the positions P whose resource
\* has the highest score: what a stable descending sort puts first, and what
\* the "score > best" scan keeps
BestOf(resources, P) ==
    CHOOSE k \in P :
        \A m \in P :
            LET sk == calculate_allocation_score(resources[ResourceOrder[k]])
                sm == calculate_allocation_score(resources[ResourceOrder[m]])
            IN sm < sk \/ (sm = sk /\ k <= m)

\* _find_best_resource_allocation: the list of selected resource ids, <<>>
\* for None.  A required type for which no other resource has capacity
\* adds nothing to the list.
find_best_resource_allocation(resources, qjob) ==
    LET positions == 1..Len(ResourceOrder)
        candidates == {k \in positions :
                          /\ resources[ResourceOrder[k]].resource_type \in qjob.required_resources
                          /\ available_capacity(resources[ResourceOrder[k]]) > 0}
    IN IF candidates = {}
       THEN <<>>
       ELSE LET first == ResourceOrder[BestOf(resources, candidates)]
                required_types == qjob.required_resources \ {resources[first].resource_type}
                complements(t) == {k \in positions :
                                      /\ resources[ResourceOrder[k]].resource_type = t
                                      /\ available_capacity(resources[ResourceOrder[k]]) > 0
                                      /\ ResourceOrder[k] # first}
                chosen == {BestOf(resources, complements(t)) :
                               t \in {u \in required_types : complements(u) # {}}}
            IN <<first>> \o [k \in 1..Cardinality(chosen) |->
                                ResourceOrder[CHOOSE c \in chosen :
                                    Cardinality({e \in chosen : e < c}) = k - 1]]

\* Load(resources, ids, delta): current_load changed by delta once for every
\* occurrence of a resource in the list ids
RECURSIVE Load(_, _, _)
Load(resources, ids, delta) ==
    IF ids = <<>>
    THEN resources
    ELSE Load([resources EXCEPT ![Head(ids)].current_load = @ + delta], Tail(ids), delta)

\* _assign_job_to_resources: the job object is marked RUNNING, every listed
\* resource takes one more unit of load, running_jobs[job.id] is set and an
\* _execute_job task is created
assign_job_to_resources(s, id, resource_ids) ==
    [s EXCEPT !.jobs[id].assigned_resources = resource_ids,
              !.jobs[id].status = "RUNNING",
              !.jobs[id].started_at = "set",
              !.resources = Load(@, resource_ids, 1),
              !.running_jobs = IF id \in Range(@) THEN @ ELSE Append(@, id),
              !.tasks[id] = @ + 1]

\* list.remove: the first occurrence is deleted
RemoveFirst(seq, x) ==
    LET k == CHOOSE i \in 1..Len(seq) : seq[i] = x /\ \A m \in 1..(i - 1) : seq[m] # x
    IN SubSeq(seq, 1, k - 1) \o SubSeq(seq, k + 1, Len(seq))

\* the queues concatenated in priority order and then sorted by created_at
\* within a priority (the sort is stable, a job queued twice stays twice)
RECURSIVE InsertByCreation(_, _, _)
InsertByCreation(jobs, sorted, id) ==
    IF sorted = <<>> \/ jobs[Head(sorted)].created_at > jobs[id].created_at
    THEN <<id>> \o sorted
    ELSE <<Head(sorted)>> \o InsertByCreation(jobs, Tail(sorted), id)

RECURSIVE SortByCreation(_, _)
SortByCreation(jobs, queue) ==
    IF queue = <<>>
    THEN <<>>
    ELSE InsertByCreation(jobs, SortByCreation(jobs, SubSeq(queue, 1, Len(queue) - 1)),
                          queue[Len(queue)])

RECURSIVE PendingFrom(_, _)
PendingFrom(s, p) ==
    IF p > 5 THEN <<>> ELSE SortByCreation(s.jobs, s.job_queues[p]) \o PendingFrom(s, p + 1)

\* the loop of _schedule_jobs_mdp over the sorted pending jobs: a job with an
\* allocation is assigned and removed from its queue
RECURSIVE ScheduleEach(_, _)
ScheduleEach(s, pending) ==
    IF pending = <<>>
    THEN s
    ELSE LET id == Head(pending)
             best_allocation == find_best_resource_allocation(s.resources, s.jobs[id])
         IN IF best_allocation # <<>>
            THEN LET a == assign_job_to_resources(s, id, best_allocation)
                 IN ScheduleEach([a EXCEPT !.job_queues[a.jobs[id].priority] =
                                              RemoveFirst(@, id)],
                                 Tail(pending))
            ELSE ScheduleEach(s, Tail(pending))

schedule_jobs_mdp(s) == ScheduleEach(s, PendingFrom(s, 1))

\* _check_completed_jobs: due is the set of running jobs whose
\* estimated_runtime has elapsed on the wall clock since started_at
RECURSIVE CompleteEach(_, _, _)
CompleteEach(s, running, due) ==
    IF running = <<>>
    THEN s
    ELSE LET id == Head(running)
         IN IF s.jobs[id].started_at # "None" /\ id \in due
            THEN CompleteEach([s EXCEPT !.jobs[id].status = "COMPLETED",
                                        !.resources = Load(@, s.jobs[id].assigned_resources, -1),
                                        !.completed_jobs = Append(@, id),
                                        !.running_jobs = SelectSeq(@, LAMBDA r : r # id)],
                              Tail(running), due)
            ELSE CompleteEach(s, Tail(running), due)

check_completed_jobs(s, due) == CompleteEach(s, s.running_jobs, due)

\* _update_resource_status: every resource's availability moves
update_resource_status(s, availability) ==
    [s EXCEPT !.resources = [id \in DOMAIN @ |->
                                [@[id] EXCEPT !.availability = availability[id]]]]

\* submit_job(job): the job object is marked QUEUED and appended to the
\* queue of its priority (no Redis client configured)
submit_job(id) ==
    /\ sched.submitted < MaxSubmissions
    /\ sched' = [sched EXCEPT !.jobs[id].status = "QUEUED",
                              !.job_queues[sched.jobs[id].priority] = Append(@, id),
                              !.submitted = @ + 1]
    /\ UNCHANGED <<ftvars, trail, simvars, chain>>

SubmitQuantumJob == \E id \in DOMAIN ClientJobs : submit_job(id)

\* _scheduling_cycle: resource status, completed jobs, expired jobs (none:
\* max_wait_time is None), scheduling; the queueing metrics keep no state
\* modelled here
SchedulingCycle ==
    \E availability \in Availabilities,
       due \in SUBSET Range(sched.running_jobs) :
        /\ sched' = schedule_jobs_mdp(
                        check_completed_jobs(update_resource_status(sched, availability), due))
        /\ UNCHANGED <<ftvars, trail, simvars, chain>>

\* _execute_job after its sleep: the task of a job sets the job's result.
\* The except branch needs an exception in the try body; the resources a job
\* is assigned are keys of self.resources and utilization() guards the
\* division, so none is raised.
ExecuteJob ==
    \E id \in DOMAIN sched.tasks :
        /\ sched.tasks[id] > 0
        /\ sched' = [sched EXCEPT !.jobs[id].result = "success", !.tasks[id] = @ - 1]
        /\ UNCHANGED <<ftvars, trail, simvars, chain>>

SchedInit == FTInit

SchedNext == SubmitQuantumJob \/ SchedulingCycle \/ ExecuteJob

SchedSpec == SchedInit /\ [][SchedNext]_vars


\* the types of the resources a job object is assigned
AssignedTypes(s, id) ==
    {s.resources[s.jobs[id].assigned_resources[k]].resource_type :
        k \in 1..Len(s.jobs[id].assigned_resources)}

\* C25: a job is RUNNING only when it is assigned a resource for every type
\* in its required_resources; a job that needs two types is not started
\* while only one of them has free capacity.
C25_RunningHasEveryRequiredType ==
    \A id \in DOMAIN sched.jobs :
        sched.jobs[id].status = "RUNNING"
        => sched.jobs[id].required_resources \subseteq AssignedTypes(sched, id)


\* the number of running jobs whose assigned_resources contain the resource
RunningOn(s, rid) ==
    Cardinality({k \in 1..Len(s.running_jobs) :
                    rid \in Range(s.jobs[s.running_jobs[k]].assigned_resources)})

\* C27: after any sequence of submit_job calls (the same job submitted twice
\* included) and scheduling cycles, every resource's current_load equals the
\* number of jobs in running_jobs whose assigned_resources contain it, and
\* 0 <= current_load <= capacity.
C27_LoadMatchesRunningJobs ==
    \A rid \in DOMAIN sched.resources :
        /\ sched.resources[rid].current_load = RunningOn(sched, rid)
        /\ 0 <= sched.resources[rid].current_load
        /\ sched.resources[rid].current_load <= sched.resources[rid].capacity


\* every job in completed_jobs that is COMPLETED has the result _execute_job
\* sets
CompletedHaveResult ==
    \A k \in 1..Len(sched.completed_jobs) :
        sched.jobs[sched.completed_jobs[k]].status = "COMPLETED"
        => sched.jobs[sched.completed_jobs[k]].result # "None"

\* a step of the scheduling loop or of an _execute_job task leaves the status
\* of a COMPLETED job in completed_jobs alone
CompletedStaysCompleted ==
    sched'.submitted = sched.submitted
    => \A id \in Range(sched.completed_jobs) :
           sched.jobs[id].status = "COMPLETED" => sched'.jobs[id].status = "COMPLETED"

\* C28: under every interleaving of the scheduling loop with the per-job
\* _execute_job tasks, a job moved to completed_jobs with status COMPLETED
\* already has its result set by _execute_job, and its status never changes
\* afterwards.
C28_CompletedAfterResult ==
    []CompletedHaveResult /\ [][CompletedStaysCompleted]_vars


(***************************************************************************)
(* The static type checker of the quantum-classical interface             *)
(* (categorical_interface.py): TypeChecker with the signatures            *)
(* _register_standard_functions registers.                                 *)
(***************************************************************************)
MaxChain == 3

\* type_rules after _register_standard_functions
type_rules ==
    [name \in {"pauli_x", "hadamard", "measure_qubit", "classical_not", "prepare_qubit"} |->
        CASE name = "pauli_x" ->
               [input_types |-> <<"QUANTUM_BIT">>, output_types |-> <<"QUANTUM_BIT">>]
          [] name = "hadamard" ->
               [input_types |-> <<"QUANTUM_BIT">>, output_types |-> <<"QUANTUM_BIT">>]
          [] name = "measure_qubit" ->
               [input_types |-> <<"QUANTUM_BIT">>, output_types |-> <<"CLASSICAL_BIT">>]
          [] name = "classical_not" ->
               [input_types |-> <<"CLASSICAL_BIT">>, output_types |-> <<"CLASSICAL_BIT">>]
          [] name = "prepare_qubit" ->
               [input_types |-> <<"CLASSICAL_BIT">>, output_types |-> <<"QUANTUM_BIT">>]]

\* the names a caller passes: the registered ones and one that is not
FunctionNames == DOMAIN type_rules \cup {"pauli_y"}

\* TypeSignature.is_compatible: equal lengths and equal types position by
\* position
is_compatible(sig1, sig2) ==
    /\ Len(sig1.output_types) = Len(sig2.input_types)
    /\ \A k \in 1..Len(sig1.output_types) : sig1.output_types[k] = sig2.input_types[k]

\* TypeChecker.check_composition
check_composition(func1, func2) ==
    IF func1 \notin DOMAIN type_rules \/ func2 \notin DOMAIN type_rules
    THEN FALSE
    ELSE is_compatible(type_rules[func1], type_rules[func2])

\* generate_z3_constraints: for every consecutive pair the Boolean variable
\* compatible_<func1>_<func2>, asserted when the pair composes and negated
\* when it does not
generate_z3_constraints(function_chain) ==
    [i \in 1..(Len(function_chain) - 1) |->
        [variable |-> "compatible_" \o function_chain[i] \o "_" \o function_chain[i + 1],
         positive |-> check_composition(function_chain[i], function_chain[i + 1])]]

\* Solver.check on a set of literals over free Boolean variables: satisfiable
\* unless one variable is both asserted and negated
z3_check(constraints) ==
    IF \E i, j \in 1..Len(constraints) :
           /\ constraints[i].variable = constraints[j].variable
           /\ constraints[i].positive # constraints[j].positive
    THEN "unsat"
    ELSE "sat"

\* TypeChecker.verify_chain: the constraints are added between push and pop,
\* so the solver is as before when the call returns
verify_chain(function_chain) ==
    IF z3_check(generate_z3_constraints(function_chain)) = "sat"
    THEN [ok |-> TRUE, message |-> "None"]
    ELSE [ok |-> FALSE, message |-> "Verification failed"]

\* the chains of at most MaxChain names
RECURSIVE Chains(_)
Chains(k) ==
    IF k = 0
    THEN {<<>>}
    ELSE Chains(k - 1) \cup {Append(c, f) : c \in {d \in Chains(k - 1) : Len(d) = k - 1},
                                             f \in FunctionNames}

VerifyChain ==
    \E function_chain \in Chains(MaxChain) :
        /\ \E r \in {verify_chain(function_chain)} :
               chain' = [function_chain |-> function_chain, called |-> TRUE,
                         ok |-> r.ok, message |-> r.message]
        /\ UNCHANGED <<ftvars, trail, simvars, sched>>

ChainInit == FTInit

ChainNext == VerifyChain

ChainSpec == ChainInit /\ [][ChainNext]_vars

\* C26: verify_chain returns (False, message) whenever some consecutive pair
\* of the chain fails check_composition (a name that is not registered, or
\* output types that differ from the next input types), and (True, None)
\* only when every consecutive pair is compatible.
C26_VerifyChainRejectsIllTyped ==
    chain.called
    => LET fc == chain.function_chain
           compatible == \A i \in 1..(Len(fc) - 1) : check_composition(fc[i], fc[i + 1])
       IN /\ chain.ok <=> compatible
          /\ chain.ok => chain.message = "None"
          /\ ~chain.ok => chain.message # "None"


\* the background task of a job waits while the job is 'processing' and has
\* left it 'completed' or 'failed' once it has run
StatusFollowsTask ==
    /\ job.task = "pending" => job.status = "processing"
    /\ job.task = "done" => job.status \in {"completed", "failed"}

\* a job enters COMPLETED_JOBS as 'processing', and 'completed' and 'failed'
\* are kept
TerminalStatusKept ==
    /\ (job.status = "none" /\ job'.status # "none") => job'.status = "processing"
    /\ job.status \in {"completed", "failed"} => job'.status = job.status

\* C29: every job submitted through the simulate or the train endpoint is
\* recorded as 'processing' and, once process_quantum_job has run, has status
\* exactly 'completed' or 'failed'; no exception leaves it 'processing', and
\* a terminal status never changes.
C29_JobEndsCompletedOrFailed ==
    []StatusFollowsTask /\ [][TerminalStatusKept]_vars

\* a training job whose try block raised has been recorded as failed
C29_Witness ==
    /\ job.type = "vqc_training"
    /\ job.task = "done"
    /\ job.status = "failed"
    /\ job.error = "ZeroDivisionError"

\* C30: in every state of a job's life its COMPLETED_JOBS record holds all the
\* fields JobStatus requires (status, progress, created_at), so that
\* get_job_status succeeds, and the created_at written at submission is
\* still there after completion or failure.
C30_RecordHasJobStatusFields ==
    job.status # "none"
    => /\ JobStatusRequired \subseteq job.keys
       /\ get_job_status(job) = "JobStatus"
       /\ job.created_at = "submitted"

====
